---------------------------- MODULE Spec2Model ----------------------------
(***************************************************************************)
(* State-machine model of the SonarLint for VS Code client core:           *)
(*   - extension.ts : activate, runJavaServer, installCustomRequestHandlers*)
(*                    showAllLocations, clearLocations, deactivate,        *)
(*                    findTypeScriptLocation, toggleRule, parseVMargs,     *)
(*                    convertCompilationDB                                 *)
(*   - scm.ts       : initScm, GitScm, NoopScm                             *)
(* One action per handler / callback.  A handler that awaits is split at   *)
(* its suspension point.                                                   *)
(***************************************************************************)
EXTENDS Integers, Sequences, FiniteSets, TLC

(***************************************************************************)
(* Bounds and value domains                                                *)
(***************************************************************************)

\* The JavaScript value `undefined` / `null` of an optional string.
Undefined == "undefined"

\* Ports the operating system may assign to a listener bound to port 0.
MaxPort == 2

OsPorts == 1..MaxPort

\* server.listen(0, ...): the port the code asks for.
ListenPortArgument == 0

\* Peers that may dial the listening socket: the spawned child process, and
\* any other local process that finds the port.
Sockets == {"child", "other"}

\* Errors resolveRequirements may reject with: a message plus an optional
\* label (the action button) and an optional remediation command.
ErrorLabels == {Undefined, "Open Settings"}

ErrorCommands == {Undefined, "sonarlint.installManagedJre"}

RequirementErrors == [label : ErrorLabels, command : ErrorCommands]

NoError == [label |-> Undefined, command |-> Undefined]

\* A string (or undefined) in a JavaScript boolean context.
Truthy(v) == v # Undefined /\ v # ""


\* Mutation: ShowHotspotRequest is registered a second time where the taint
\* vulnerability request should be.
RouterMethodsHotspotTwice ==
  << "ShowRuleDescriptionRequest", "GetJavaConfigRequest", "ScmCheckRequest",
     "ShowNotificationForFirstSecretsIssueRequest", "ShowSonarLintOutput",
     "OpenJavaHomeSettings", "OpenPathToNodeSettings", "BrowseTo",
     "OpenConnectionSettings", "ShowHotspotRequest", "ShowHotspotRequest" >>

\* The server-to-client custom methods registered by installCustomRequestHandlers,
\* in registration order.
RouterMethods ==
  << "ShowRuleDescriptionRequest", "GetJavaConfigRequest", "ScmCheckRequest",
     "ShowNotificationForFirstSecretsIssueRequest", "ShowSonarLintOutput",
     "OpenJavaHomeSettings", "OpenPathToNodeSettings", "BrowseTo",
     "OpenConnectionSettings", "ShowHotspotRequest",
     "ShowTaintVulnerabilityRequest" >>

\* The request registered next to the SCM bridge.
BranchLookupMethod == "GetBranchNameForFolderRequest"

Range(s) == { s[i] : i \in DOMAIN s }

\* The custom request types of protocol.ts that the client must serve.
CustomMethods ==
  { "ShowRuleDescriptionRequest", "GetJavaConfigRequest", "ScmCheckRequest",
    "ShowNotificationForFirstSecretsIssueRequest", "ShowSonarLintOutput",
    "OpenJavaHomeSettings", "OpenPathToNodeSettings", "BrowseTo",
    "OpenConnectionSettings", "ShowHotspotRequest",
    "ShowTaintVulnerabilityRequest", "GetBranchNameForFolderRequest" }

\* vscode.workspace.workspaceFolders, in order.  A URI string is a tuple of
\* characters: "/a", "/ab" (a sibling of "/a" whose name extends it), "/c".
WorkspaceFolders == << <<"/", "a">>, <<"/", "a", "b">>, <<"/", "c">> >>

\* The repositories git may open, and each one's rootUri.
Repos == {"r1", "r2"}

rootUri(r) == IF r = "r1" THEN <<"/", "a">> ELSE <<"/", "a", "b">>

\* repository.state.HEAD?.name: a branch name, or undefined (no HEAD, or a
\* detached HEAD without a name).
BranchNames == {Undefined, "main"}

\* String.prototype.startsWith
StartsWith(s, prefix) ==
  /\ Len(prefix) <= Len(s)
  /\ SubSeq(s, 1, Len(prefix)) = prefix

\* Issues the server (or a command) may ask to show: a taint vulnerability
\* with a creation timestamp, a local issue without one, and a second taint
\* vulnerability of another connection.
TaintIssue ==
  [key |-> "taint", creationDate |-> "2021-03-01T10:00:00", connectionId |-> "sq",
   locations |-> << "L1", "L2" >>]

LocalIssue ==
  [key |-> "local", creationDate |-> Undefined, connectionId |-> Undefined,
   locations |-> << "L2", "L1" >>]

OtherTaintIssue ==
  [key |-> "taint2", creationDate |-> "2021-04-02T09:30:00", connectionId |-> "sc",
   locations |-> << "L3" >>]

Issues == {TaintIssue, LocalIssue, OtherTaintIssue}

IssueByKey(k) == CHOOSE i \in Issues : i.key = k

\* Number of show / clear events the model remembers.
HistoryWindow == 4

\* Number of showAllLocations calls that may be suspended at once.
MaxPendingShows == 2

\* Number of repository state-change events fired in one run.
MaxChanges == 2

\* Number of configuration-change events fired in one run.
MaxConfigChanges == 2

\* Number of rule-description panels created in one run.
MaxPanels == 2

\* First-secret requests the server sends.
MaxSecretRequests == 2

\* Calls of convertCompilationDB in one run.
MaxConversions == 3

\* The last tick of the file system's clock.
MaxClock == 3

\* Length of the longest ls.vmargs string.
MaxLen == 5

\* Rule toggles in one run.
MaxToggles == 3

(***************************************************************************)
(* State                                                                   *)
(***************************************************************************)
VARIABLES
  \* ---- session (extension.ts module state and the language client) ----
  languageClient,     \* "undefined" | "created"          (let languageClient)
  clientState,        \* "not-started" | "starting" | "ready" | "failed" | "stopping" | "stopped"
  onReadyReactions,   \* reactions registered with languageClient.onReady().then
  readyQueue,         \* onReady reactions scheduled and not yet run
  requirements,       \* "idle" | "pending" | "resolved" | "failed"
  error,              \* the error resolveRequirements rejected with
  errorDialog,        \* "none" | "open" | "answered"     (showErrorMessage)
  selection,          \* what the user picked in the error dialog
  executedCommands,   \* remediation commands executed so far
  transportPromise,   \* the Promise<StreamInfo> runJavaServer returns
  server,             \* the Net.Server: [state, requested, port]
  children,           \* port argument of every child process spawned, in order
  accepted,           \* peers whose connection the listener accepted, in order
  handshake,          \* "none" | "sent" | "done"         (initialize request)
  handlers,           \* method -> number of onRequest registrations
  scm,                \* "none" | "git" | "noop"          (const scm = initScm())
  \* ---- git collaborator (vscode.git API) and the GitScm bridge ----
  gitExtension,       \* "absent" | "present"
  gitState,           \* "uninitialized" | "initialized"  (gitApi.state)
  repositories,       \* gitApi.repositories, in the order they were opened
  HEAD,               \* repository -> repository.state.HEAD?.name
  listeners,          \* GitScm.listeners: the subscriptions the bridge keeps
  stateListener,      \* the onDidChangeState subscription (not kept in listeners)
  disposed,           \* GitScm.dispose has run
  lastEvent,          \* the git event (or construction) handled last
  notified,           \* didLocalBranchNameChange notifications it sent, in order
  workspaceFolders,   \* vscode.workspace.workspaceFolders: [defined, folders]
  enumerations,       \* runs of subscribeToAllRepositoryChanges so far
  changeLog,          \* the repository state-change events fired, in order
  sentLog,            \* every notification sent to the server, in order
  \* ---- secondary-location tree and its view ----
  secondaryLocationsTree,  \* [created, issue, locations]: what the tree displays
  message,                 \* issueLocationsView.message (NoMessage models null)
  pendingShows,            \* issues whose showAllLocations is suspended at its await
  history,                 \* the last HistoryWindow show / clear events
  \* ---- deactivation, disposal and the request handlers ----
  deactivation,       \* "none" | "awaiting-stop" | "complete": the host's view
  disposal,           \* the run of GitScm.dispose: [done, listed, attempted, failed, threw]
  exceptionLog,       \* lines a catch block wrote to the SonarLint output
  lookup,             \* the branch-lookup request answered last, and its answer
  \* ---- configuration ----
  settings,           \* the sonarlint settings as they are now: key -> value
  currentConfig,      \* let currentConfig: the configuration remembered
  configChanges,      \* configuration-change events fired so far
  configEvent,        \* the configuration-change event handled last
  restartPrompts,     \* restart prompts shown and not yet answered
  restartSelection,   \* the answer given to a restart prompt last
  reloads,            \* executions of workbench.action.reloadWindow
  \* ---- request handlers ----
  ignoreCheck,        \* the ignore check settled last: its inputs and its result
  ruleDescriptionPanel,  \* let ruleDescriptionPanel: [id, html], id 0 for undefined
  livePanels,         \* the rule-description webview panels that exist
  panelsCreated,      \* createWebviewPanel calls so far
  panelEvent,         \* the show request or dispose event handled last
  \* ---- first-secret notice and the initialization parameters ----
  globalState,        \* context.globalState.get(FIRST_SECRET_ISSUE_DETECTED_KEY)
  secretRequests,     \* first-secret requests handled so far
  warningsShown,      \* showWarningMessage calls of the first-secret handler
  openWarnings,       \* first-secret warnings shown and not yet answered
  problemsFocused,    \* executions of workbench.panel.markers.view.focus
  tsdk,               \* the setting typescript.tsdk
  tsPath,             \* const tsPath of activate
  initializationOptions,  \* the initializationOptions sent with `initialize`
  uiEffect,           \* the command executed or view revealed last by a plain handler
  \* ---- conversion of compilation databases ----
  fsClock,            \* the file system's clock, in its own granularity
  compilationDatabase,  \* compile_commands.json: [exists, mtime, content]
  buildWrapperDump,   \* build-wrapper-dump.json: [exists, mtime, content]
  conversions,        \* calls of convertCompilationDB so far
  reads,              \* FS.readFile calls whose callback has not run yet
  writes,             \* FS.mkdir / FS.writeFile chains that have not written yet
  lastConversion,     \* how the call of convertCompilationDB made last ended
  lastWrite,          \* the write of the dump made last, and what its call saw
  uncaughtExceptions, \* exceptions thrown out of a callback into the host
  \* ---- transport failures ----
  transportFaults,    \* 'error' events emitted by the Net.Server or the child
  \* ---- parseVMargs ----
  vmargsCall,         \* a call of parseVMargs: [params, vmargsLine, done, result]
  \* ---- rule activation overrides ----
  rules,              \* the setting sonarlint.rules as the extension reads it
  ruleUpdates,        \* configuration.update('rules', ...) calls not yet applied
  lastToggle,         \* rule key -> the toggle requested last for it
  toggles             \* toggle commands executed so far

sessionVars ==
  << languageClient, clientState, onReadyReactions, readyQueue, requirements,
     error, errorDialog, selection, executedCommands, transportPromise, server,
     children, accepted, handshake, handlers, scm >>

gitVars ==
  << gitExtension, gitState, repositories, HEAD, listeners, stateListener,
     disposed, lastEvent, notified, workspaceFolders, enumerations, changeLog,
     sentLog >>

locVars == << secondaryLocationsTree, message, pendingShows, history >>

configVars ==
  << settings, currentConfig, configChanges, configEvent, restartPrompts,
     restartSelection, reloads >>

panelVars == << ruleDescriptionPanel, livePanels, panelsCreated, panelEvent >>

secretVars ==
  << globalState, secretRequests, warningsShown, openWarnings, problemsFocused >>

paramVars == << tsdk, tsPath, initializationOptions >>

\* The conversion of compilation databases, and the exceptions no handler
\* caught.
conversionVars ==
  << fsClock, compilationDatabase, buildWrapperDump, conversions, reads, writes,
     lastConversion, lastWrite, uncaughtExceptions >>

ruleVars == << rules, ruleUpdates, lastToggle, toggles >>

toolVars == << conversionVars, transportFaults, vmargsCall, ruleVars >>

requestVars ==
  << configVars, ignoreCheck, panelVars, secretVars, paramVars, uiEffect,
     toolVars >>

handlerVars == << deactivation, disposal, exceptionLog, lookup, requestVars >>

vars == << sessionVars, gitVars, locVars, handlerVars >>

PendingPromise == [state |-> "pending", reader |-> Undefined, writer |-> Undefined]

NoPromise == [state |-> "none", reader |-> Undefined, writer |-> Undefined]

RejectedPromise == [state |-> "rejected", reader |-> Undefined, writer |-> Undefined]

NoServer == [state |-> "none", requested |-> 0, port |-> 0]

NoEvent == [type |-> "none", repo |-> Undefined]

\* vscode.workspace.workspaceFolders is undefined when no folder is open.
NoWorkspace == [defined |-> FALSE, folders |-> << >>]

OpenWorkspace == [defined |-> TRUE, folders |-> WorkspaceFolders]

\* let secondaryLocationsTree before activate assigns it.
NoTree == [created |-> FALSE, issue |-> Undefined, locations |-> << >>]

\* new SecondaryLocationsTree(): nothing displayed.
EmptyTree == [created |-> TRUE, issue |-> Undefined, locations |-> << >>]

\* issueLocationsView.message = null
NoMessage == << >>

InitSession ==
  /\ languageClient = "undefined"
  /\ clientState = "not-started"
  /\ onReadyReactions = << >>
  /\ readyQueue = << >>
  /\ requirements = "idle"
  /\ error = NoError
  /\ errorDialog = "none"
  /\ selection = Undefined
  /\ executedCommands = {}
  /\ transportPromise = NoPromise
  /\ server = NoServer
  /\ children = << >>
  /\ accepted = << >>
  /\ handshake = "none"
  /\ handlers = [m \in CustomMethods |-> 0]
  /\ scm = "none"

\* The git extension exists or not; when it does it starts uninitialized, with
\* no repository open, every repository on branch "main".  The window has a
\* workspace open or none, for the whole life of the extension host.
InitGit ==
  /\ gitExtension \in {"absent", "present"}
  /\ gitState = "uninitialized"
  /\ repositories = << >>
  /\ HEAD = [r \in Repos |-> "main"]
  /\ listeners = << >>
  /\ stateListener = FALSE
  /\ disposed = FALSE
  /\ lastEvent = NoEvent
  /\ notified = << >>
  /\ workspaceFolders \in {NoWorkspace, OpenWorkspace}
  /\ enumerations = 0
  /\ changeLog = << >>
  /\ sentLog = << >>

InitLocations ==
  /\ secondaryLocationsTree = NoTree
  /\ message = NoMessage
  /\ pendingShows = << >>
  /\ history = << >>

\* GitScm.dispose has not run.
NoDisposal ==
  [done |-> FALSE, listed |-> 0, attempted |-> {}, failed |-> {}, threw |-> FALSE]

\* The value null (NoopScm.getBranchForFolder returns it).
Null == "null"

\* No branch-lookup request has been answered.
NoLookup ==
  [folder |-> << >>, outcome |-> "none", value |-> Undefined, changes |-> 0,
   opened |-> 0]

\* The settings read by the transport bootstrapper, and one that is not.
StartupKeys == {"ls.javaHome", "ls.vmargs", "pathToNodeExecutable"}

ConfigKeys == StartupKeys \cup {"output.showVerboseLogs"}

ConfigValues == {"default", "custom"}

Configurations == [ConfigKeys -> ConfigValues]

DefaultSettings == [k \in ConfigKeys |-> "default"]

\* No configuration-change event has been handled.
NoConfigEvent ==
  [affects |-> FALSE, altered |-> FALSE, remembered |-> FALSE, prompted |-> FALSE]

InitConfiguration ==
  /\ settings = DefaultSettings
  /\ currentConfig = DefaultSettings
  /\ configChanges = 0
  /\ configEvent = NoConfigEvent
  /\ restartPrompts = 0
  /\ restartSelection = "none"
  /\ reloads = 0

\* No ignore check has settled.
NoIgnoreCheck ==
  [outcome |-> "none", value |-> FALSE, inWorkspace |-> FALSE,
   failed |-> FALSE]

\* let ruleDescriptionPanel, undefined.
NoPanel == [id |-> 0, html |-> ""]

NoPanelEvent == [type |-> "none", rule |-> "", created |-> FALSE, existed |-> FALSE]

InitRequests ==
  /\ ignoreCheck = NoIgnoreCheck
  /\ ruleDescriptionPanel = NoPanel
  /\ livePanels = {}
  /\ panelsCreated = 0
  /\ panelEvent = NoPanelEvent

\* No `initialize` request has been sent.
NoOptions == [sent |-> FALSE, typeScriptLocation |-> << >>,
              firstSecretDetected |-> Undefined]

\* No first-secret request has been handled and typescript.tsdk is not set.
InitParameters ==
  /\ secretRequests = 0
  /\ warningsShown = 0
  /\ openWarnings = 0
  /\ problemsFocused = 0
  /\ tsdk = << >>
  /\ tsPath = << >>
  /\ initializationOptions = NoOptions
  /\ uiEffect = "none"

NoFile == [exists |-> FALSE, mtime |-> 0, content |-> "none"]

\* What convertCompilationDB saw of the two files when it was called.
NoSnapshot == [dumpExisted |-> FALSE, dumpMtime |-> 0, dbMtime |-> 0]

NoWrite == [happened |-> FALSE, saw |-> NoSnapshot]

\* Neither file exists and no conversion has run.
InitConversion ==
  /\ fsClock = 1
  /\ compilationDatabase = NoFile
  /\ buildWrapperDump = NoFile
  /\ conversions = 0
  /\ reads = << >>
  /\ writes = << >>
  /\ lastConversion = "none"
  /\ lastWrite = NoWrite
  /\ uncaughtExceptions = 0

\* parseVMargs has not been called; ls.vmargs is not set.
NoCall == [params |-> << >>, vmargsLine |-> << >>, done |-> FALSE, result |-> << >>]

InitHandlers ==
  /\ InitRequests
  /\ InitParameters
  /\ InitConversion
  /\ transportFaults = {}
  /\ deactivation = "none"
  /\ disposal = NoDisposal
  /\ exceptionLog = 0
  /\ lookup = NoLookup
  /\ InitConfiguration

InitVMargs == vmargsCall = NoCall

RuleKeys == {"java:S100", "javascript:S200"}

\* The two rules of the rule tree: one active by default, one not.
RuleNodes ==
  { [key |-> "java:S100", activeByDefault |-> TRUE],
    [key |-> "javascript:S200", activeByDefault |-> FALSE] }

\* No rule has been toggled.
NoToggle == [level |-> "none", bare |-> FALSE]

\* sonarlint.rules is not set: no rule carries an override.
InitRules ==
  /\ rules = [k \in RuleKeys |-> Undefined]
  /\ ruleUpdates = << >>
  /\ lastToggle = [k \in RuleKeys |-> NoToggle]
  /\ toggles = 0

\* A fresh installation: the first-secret notice has never been shown.
Init ==
  /\ InitSession /\ InitGit /\ InitLocations /\ InitHandlers /\ InitVMargs
  /\ InitRules
  /\ globalState = Undefined

\* Any installation: the global state survives from earlier runs of the
\* editor, so the flag may already be there.
InitAnyInstallation ==
  /\ InitSession /\ InitGit /\ InitLocations /\ InitHandlers /\ InitVMargs
  /\ InitRules
  /\ globalState \in {Undefined, "true"}

\* Promise reactions run before the host dispatches the next event.
NoMicrotask == readyQueue = << >>

\* The extension host is alive and between two events.
HostIdle == NoMicrotask /\ clientState # "stopped"

(***************************************************************************)
(* extension.ts: activate                                                  *)
(***************************************************************************)
\* A path is the sequence of its segments; NoPath stands for undefined.
NoPath == << >>

\* Path.dirname
dirname(path) == SubSeq(path, 1, Len(path) - 1)

\* Path.resolve(tsExt.extensionPath, '..', 'node_modules', 'typescript', 'lib'),
\* tsExt being the built-in extension vscode.typescript-language-features.
BundledTypeScriptPath == << "vscode", "extensions", "node_modules", "typescript", "lib" >>

\* A value of typescript.tsdk that resolves to an existing directory.
ConfiguredTsdk == << "opt", "typescript", "lib" >>

\* findTypeScriptLocation(): the configured tsdk when the setting is there
\* and resolves, the TypeScript bundled with the editor otherwise.
findTypeScriptLocation(tsdkPathSetting) ==
  IF tsdkPathSetting # NoPath THEN tsdkPathSetting ELSE BundledTypeScriptPath

\* clientOptions.initializationOptions(): the members that depend on state.
\*   typeScriptLocation: tsPath ? Path.dirname(Path.dirname(tsPath)) : undefined
\*   firstSecretDetected: globalState.get(KEY) === 'true' ? 'true' : 'false'
initializationOptionsOf(path, state) ==
  [sent |-> TRUE,
   typeScriptLocation |-> IF path # NoPath THEN dirname(dirname(path)) ELSE NoPath,
   firstSecretDetected |-> IF state = "true" THEN "true" ELSE "false"]

\* Mutation: the reaction that initialises the SCM bridge is not registered.
activateReactionsWithoutScm == << "installCustomRequestHandlers" >>

\* The reactions activate registers with languageClient.onReady().then, in order.
activateReactions == << "installCustomRequestHandlers", "initScm" >>

\* The host calls activate once per extension-host lifetime.  It remembers the
\* configuration (currentConfig = getSonarLintConfiguration()), creates the
\* client, registers the two onReady reactions, creates the empty
\* secondary-location tree and calls languageClient.start(), which invokes
\* serverOptions = runJavaServer: resolveRequirements is then pending.
activate ==
  /\ languageClient = "undefined"
  /\ deactivation = "none"
  /\ languageClient' = "created"
  /\ onReadyReactions' = activateReactions
  /\ secondaryLocationsTree' = EmptyTree
  /\ clientState' = "starting"
  /\ requirements' = "pending"
  /\ UNCHANGED << readyQueue, error, errorDialog, selection, executedCommands,
                  transportPromise, server, children, accepted, handshake,
                  handlers, scm >>
  /\ currentConfig' = settings
  /\ tsPath' = findTypeScriptLocation(tsdk)
  /\ UNCHANGED << message, pendingShows, history >>
  /\ UNCHANGED gitVars
  /\ UNCHANGED << deactivation, disposal, exceptionLog, lookup >>
  /\ UNCHANGED << settings, configChanges, configEvent, restartPrompts,
                  restartSelection, reloads >>
  /\ UNCHANGED << ignoreCheck, panelVars, secretVars, tsdk,
                  initializationOptions, uiEffect, toolVars >>

(***************************************************************************)
(* extension.ts: runJavaServer                                             *)
(***************************************************************************)
\* The executor of new Promise<StreamInfo>: Net.createServer(connectionListener)
\* and server.listen(0, listenCallback).  Nothing is spawned yet.
openListener ==
  /\ transportPromise' = PendingPromise
  /\ server' = [state |-> "listen-requested", requested |-> ListenPortArgument,
                port |-> 0]

\* .then(requirements => new Promise(...)) once resolveRequirements fulfils.
requirementsResolved ==
  /\ HostIdle
  /\ requirements = "pending"
  /\ requirements' = "resolved"
  /\ openListener
  /\ UNCHANGED << languageClient, clientState, onReadyReactions, readyQueue, error,
                  errorDialog, selection, executedCommands, children, accepted,
                  handshake, handlers, scm >>
  /\ UNCHANGED << gitVars, locVars >>
  /\ UNCHANGED handlerVars

\* .catch(error => { showErrorMessage(error.message, error.label).then(...);
\* throw error; }): the dialog opens and the rethrown error rejects the chain,
\* so the .then above never runs and the client's start fails (a client that
\* is already being stopped stays so).
catchRequirementsError(err) ==
  /\ error' = err
  /\ errorDialog' = "open"
  /\ transportPromise' = RejectedPromise
  /\ clientState' = IF clientState = "starting" THEN "failed" ELSE clientState
  /\ UNCHANGED server

requirementsRejected ==
  /\ HostIdle
  /\ requirements = "pending"
  /\ requirements' = "failed"
  /\ \E err \in RequirementErrors : catchRequirementsError(err)
  /\ UNCHANGED << languageClient, onReadyReactions, readyQueue, selection,
                  executedCommands, children, accepted, handshake, handlers, scm >>
  /\ UNCHANGED << gitVars, locVars >>
  /\ UNCHANGED handlerVars

\* The items the error dialog offers: showErrorMessage(message, error.label).
DialogItems(err) == IF err.label = Undefined THEN {} ELSE {err.label}

\* Mutation: the test of error.label is dropped.
executesRemediationUnlabelled(err, picked) ==
  err.label = picked /\ Truthy(err.command)

\* selection => { if (error.label && error.label === selection && error.command) ... }
executesRemediation(err, picked) ==
  Truthy(err.label) /\ err.label = picked /\ Truthy(err.command)

\* The user picks an item of the dialog or dismisses it (undefined).
errorDialogAnswered ==
  /\ HostIdle
  /\ errorDialog = "open"
  /\ errorDialog' = "answered"
  /\ \E picked \in DialogItems(error) \cup {Undefined} :
       /\ selection' = picked
       /\ executedCommands' =
            IF executesRemediation(error, picked)
              THEN executedCommands \cup {error.command}
              ELSE executedCommands
  /\ UNCHANGED << languageClient, clientState, onReadyReactions, readyQueue,
                  requirements, error, transportPromise, server, children,
                  accepted, handshake, handlers, scm >>
  /\ UNCHANGED << gitVars, locVars >>
  /\ UNCHANGED handlerVars

\* Mutation: the child is given the port that was asked for, not the one bound.
addressPortRequested(srv) == srv.requested

\* const port = (server.address() as Net.AddressInfo).port
addressPort(srv) == srv.port

\* Mutation: the callback's body runs twice, so two children are spawned.
listenCallbackTwice ==
  /\ HostIdle
  /\ server.state = "listen-requested"
  /\ \E p \in OsPorts :
       /\ server' = [server EXCEPT !.state = "listening",
                       !.port = IF server.requested = 0 THEN p ELSE server.requested]
       /\ children' = children \o << server'.port, server'.port >>
  /\ UNCHANGED << languageClient, clientState, onReadyReactions, readyQueue,
                  requirements, error, errorDialog, selection, executedCommands,
                  transportPromise, accepted, handshake, handlers, scm >>
  /\ UNCHANGED << gitVars, locVars >>
  /\ UNCHANGED handlerVars

\* The callback of server.listen(0, ...): the listener is bound to the port the
\* operating system chose; the child is spawned with that port as argument.
listenCallback ==
  /\ HostIdle
  /\ server.state = "listen-requested"
  /\ \E p \in OsPorts :
       /\ server' = [server EXCEPT !.state = "listening",
                       !.port = IF server.requested = 0 THEN p ELSE server.requested]
       /\ children' = Append(children, addressPort(server'))
  /\ UNCHANGED << languageClient, clientState, onReadyReactions, readyQueue,
                  requirements, error, errorDialog, selection, executedCommands,
                  transportPromise, accepted, handshake, handlers, scm >>
  /\ UNCHANGED << gitVars, locVars >>
  /\ UNCHANGED handlerVars

\* server.listen fails (no port, no descriptor): the server emits 'error'.
\* runJavaServer registers no 'error' listener, so the emitter throws the
\* error into the host; the promise is neither resolved nor rejected and
\* nothing is written to the SonarLint output.
listenError ==
  /\ HostIdle
  /\ server.state = "listen-requested"
  /\ server' = [server EXCEPT !.state = "failed"]
  /\ transportFaults' = transportFaults \cup {"listen"}
  /\ uncaughtExceptions' = uncaughtExceptions + 1
  /\ UNCHANGED << languageClient, clientState, onReadyReactions, readyQueue,
                  requirements, error, errorDialog, selection, executedCommands,
                  transportPromise, children, accepted, handshake, handlers, scm >>
  /\ UNCHANGED << gitVars, locVars >>
  /\ UNCHANGED << deactivation, disposal, exceptionLog, lookup, configVars,
                  ignoreCheck, panelVars, secretVars, paramVars, uiEffect >>
  /\ UNCHANGED << fsClock, compilationDatabase, buildWrapperDump, conversions,
                  reads, writes, lastConversion, lastWrite, vmargsCall,
                  ruleVars >>

\* ChildProcess.spawn fails (the java executable is missing or may not be
\* executed): the child emits 'error' on the next tick.  No 'error' listener
\* is registered on it either.
spawnError ==
  /\ HostIdle
  /\ children # << >>
  /\ "child" \notin Range(accepted)
  /\ "spawn" \notin transportFaults
  /\ transportFaults' = transportFaults \cup {"spawn"}
  /\ uncaughtExceptions' = uncaughtExceptions + 1
  /\ UNCHANGED sessionVars
  /\ UNCHANGED << gitVars, locVars >>
  /\ UNCHANGED << deactivation, disposal, exceptionLog, lookup, configVars,
                  ignoreCheck, panelVars, secretVars, paramVars, uiEffect >>
  /\ UNCHANGED << fsClock, compilationDatabase, buildWrapperDump, conversions,
                  reads, writes, lastConversion, lastWrite, vmargsCall,
                  ruleVars >>

\* Mutation: every call of resolve settles the promise anew.
ResolveAgain(promise, socket) ==
  [state |-> "resolved", reader |-> socket, writer |-> socket]

\* resolve(value) of a JavaScript promise: only the first settlement counts.
Resolve(promise, socket) ==
  IF promise.state = "pending"
    THEN [state |-> "resolved", reader |-> socket, writer |-> socket]
    ELSE promise

\* Mutation: the connection listener does not resolve the promise.
connectionListenerSilent(promise, socket) == promise

\* Net.createServer(socket => resolve({ reader: socket, writer: socket }))
connectionListener(promise, socket) == Resolve(promise, socket)

\* A peer connects to the listening port.  The child dials the port it was
\* given as argument; any other local process may find the port too.
connectionAccepted ==
  /\ HostIdle
  /\ server.state = "listening"
  /\ \E peer \in Sockets :
       /\ peer \notin Range(accepted)
       /\ peer = "child" =>
            /\ \E i \in DOMAIN children : children[i] = server.port
            /\ "spawn" \notin transportFaults
       /\ accepted' = Append(accepted, peer)
       /\ transportPromise' = connectionListener(transportPromise, peer)
  /\ UNCHANGED << languageClient, clientState, onReadyReactions, readyQueue,
                  requirements, error, errorDialog, selection, executedCommands,
                  server, children, handshake, handlers, scm >>
  /\ UNCHANGED << gitVars, locVars >>
  /\ UNCHANGED handlerVars

(***************************************************************************)
(* The language client (vscode-languageclient), as activate uses it        *)
(***************************************************************************)
\* Mutation: the TypeScript location is looked up again when the parameters
\* are built.
sendInitializeRereadsTsdk ==
  /\ HostIdle
  /\ clientState = "starting"
  /\ transportPromise.state = "resolved"
  /\ handshake = "none"
  /\ handshake' = "sent"
  /\ initializationOptions' =
       initializationOptionsOf(findTypeScriptLocation(tsdk), globalState)
  /\ UNCHANGED << languageClient, clientState, onReadyReactions, readyQueue,
                  requirements, error, errorDialog, selection, executedCommands,
                  transportPromise, server, children, accepted, handlers, scm >>
  /\ UNCHANGED << gitVars, locVars >>
  /\ UNCHANGED << deactivation, disposal, exceptionLog, lookup, configVars,
                  ignoreCheck, panelVars, secretVars, tsdk, tsPath, uiEffect, toolVars >>

\* Once the transport promise is fulfilled the client sends `initialize`; it
\* calls clientOptions.initializationOptions() to build the parameters.
sendInitialize ==
  /\ HostIdle
  /\ clientState = "starting"
  /\ transportPromise.state = "resolved"
  /\ handshake = "none"
  /\ handshake' = "sent"
  /\ initializationOptions' = initializationOptionsOf(tsPath, globalState)
  /\ UNCHANGED << languageClient, clientState, onReadyReactions, readyQueue,
                  requirements, error, errorDialog, selection, executedCommands,
                  transportPromise, server, children, accepted, handlers, scm >>
  /\ UNCHANGED << gitVars, locVars >>
  /\ UNCHANGED << deactivation, disposal, exceptionLog, lookup, configVars,
                  ignoreCheck, panelVars, secretVars, tsdk, tsPath, uiEffect, toolVars >>

\* The peer answers `initialize`: the session is ready and the onReady promise
\* is fulfilled, which schedules the reactions registered on it.
initializeResult ==
  /\ HostIdle
  /\ clientState = "starting"
  /\ handshake = "sent"
  /\ handshake' = "done"
  /\ clientState' = "ready"
  /\ readyQueue' = onReadyReactions
  /\ UNCHANGED << languageClient, onReadyReactions, requirements, error,
                  errorDialog, selection, executedCommands, transportPromise,
                  server, children, accepted, handlers, scm >>
  /\ UNCHANGED << gitVars, locVars >>
  /\ UNCHANGED handlerVars

(***************************************************************************)
(* extension.ts: installCustomRequestHandlers                              *)
(***************************************************************************)
\* Number of times method m occurs in the sequence ms.
Occurrences(ms, m) == Cardinality({ i \in DOMAIN ms : ms[i] = m })

\* languageClient.onRequest(type, handler) for every type of `methods`.
onRequestAll(regs, methods) ==
  [m \in CustomMethods |-> regs[m] + Occurrences(methods, m)]

installCustomRequestHandlers == handlers' = onRequestAll(handlers, RouterMethods)

\* languageClient.onReady().then(() => installCustomRequestHandlers(context))
onReadyInstallHandlers ==
  /\ readyQueue # << >>
  /\ Head(readyQueue) = "installCustomRequestHandlers"
  /\ readyQueue' = Tail(readyQueue)
  /\ installCustomRequestHandlers
  /\ UNCHANGED << languageClient, clientState, onReadyReactions, requirements,
                  error, errorDialog, selection, executedCommands,
                  transportPromise, server, children, accepted, handshake, scm >>
  /\ UNCHANGED << gitVars, locVars >>
  /\ UNCHANGED handlerVars

(***************************************************************************)
(* scm.ts: GitScm                                                          *)
(***************************************************************************)
\* The git extension's getRepository(uri): the open repository whose root
\* contains the path (the deepest one), or undefined.
IsDescendant(root, path) == path = root \/ StartsWith(path, root \o << "/" >>)

getRepository(repos, uri) ==
  LET holding == { r \in Range(repos) : IsDescendant(rootUri(r), uri) }
  IN  IF holding = {} THEN Undefined
      ELSE CHOOSE r \in holding :
             \A q \in holding : Len(rootUri(q)) <= Len(rootUri(r))

OpenListener == [kind |-> "open", repo |-> Undefined]

ChangeListener(r) == [kind |-> "change", repo |-> r]

Notification(folder, branch) == [folder |-> folder, branchName |-> branch]

\* One entry of sentLog: a notification and the event that caused it, 0 for the
\* enumeration's initial push and k for the k-th state-change event.
Sent(cause, n) ==
  [cause |-> cause, folder |-> n.folder, branchName |-> n.branchName]

\* SonarLintExtendedLanguageClient.didLocalBranchNameChange(folder, branch):
\* the notification is handed to the connection at once, behind the earlier ones.
didLocalBranchNameChange(log, cause, n) == Append(log, Sent(cause, n))

\* The notifications of one handler, sent in the order it produced them.
RECURSIVE sendAll(_, _, _)
sendAll(log, cause, ns) ==
  IF ns = << >> THEN log
  ELSE sendAll(didLocalBranchNameChange(log, cause, Head(ns)), cause, Tail(ns))

\* this.listeners.push(repository.state.onDidChange(...))
subscribeToRepositoryChanges(ls, r) == Append(ls, ChangeListener(r))

\* this.gitApi.repositories.forEach(this.subscribeToRepositoryChanges, this)
RECURSIVE subscribeEach(_, _)
subscribeEach(ls, repos) ==
  IF repos = << >> THEN ls
  ELSE subscribeEach(subscribeToRepositoryChanges(ls, Head(repos)), Tail(repos))

\* Mutation: a folder that no repository contains is skipped.
RECURSIVE initialBranchesContainedOnly(_, _, _)
initialBranchesContainedOnly(folders, repos, head) ==
  IF folders = << >> THEN << >>
  ELSE LET r == getRepository(repos, Head(folders))
       IN  (IF r = Undefined THEN << >>
              ELSE << Notification(Head(folders), head[r]) >>)
           \o initialBranchesContainedOnly(Tail(folders), repos, head)

\* The second loop of subscribeToAllRepositoryChanges: one notification per
\* workspace folder, carrying getRepository(folder.uri)?.state.HEAD?.name.
RECURSIVE initialBranches(_, _, _)
initialBranches(folders, repos, head) ==
  IF folders = << >> THEN << >>
  ELSE LET r == getRepository(repos, Head(folders))
       IN  << Notification(Head(folders),
                           IF r = Undefined THEN Undefined ELSE head[r]) >>
           \o initialBranches(Tail(folders), repos, head)

\* The body of one repository.state.onDidChange listener: every workspace
\* folder whose URI string starts with the repository's root URI string is
\* notified with repository.state.HEAD?.name.
RECURSIVE onDidChange(_, _, _)
onDidChange(folders, r, branch) ==
  IF folders = << >> THEN << >>
  ELSE (IF StartsWith(Head(folders), rootUri(r))
          THEN << Notification(Head(folders), branch) >>
          ELSE << >>)
       \o onDidChange(Tail(folders), r, branch)

\* The event emitter of repository r calls each of its listeners, in the order
\* they subscribed.
RECURSIVE fireDidChange(_, _, _)
fireDidChange(ls, r, branch) ==
  IF ls = << >> THEN << >>
  ELSE (IF Head(ls) = ChangeListener(r)
          THEN onDidChange(workspaceFolders.folders, r, branch)
          ELSE << >>)
       \o fireDidChange(Tail(ls), r, branch)

\* The subscriptions of the bridge still deliver events.
BridgeListening == listeners # << >> /\ ~disposed

\* The per-repository subscriptions that still deliver events: dispose() went
\* through the listeners the array held when it ran, and a subscription pushed
\* by a later subscribeToRepositoryChanges is disposed by nobody.
LiveListeners ==
  IF disposed
    THEN SubSeq(listeners, disposal.listed + 1, Len(listeners))
    ELSE listeners

\* subscribeToAllRepositoryChanges(): subscribe to every known repository, then
\* push a branch for each workspace folder.  With no workspace open,
\* workspaceFolders.forEach throws once the subscriptions are made.
subscribeToAllRepositoryChanges ==
  /\ listeners' = subscribeEach(listeners, repositories)
  /\ notified' = initialBranches(workspaceFolders.folders, repositories, HEAD)
  /\ enumerations' = enumerations + 1

\* new GitScm(gitApi, client): subscribe to onDidOpenRepository; then either
\* enumerate at once (git already initialized) or wait for onDidChangeState.
GitScmConstructor ==
  /\ lastEvent' = [type |-> "construct", repo |-> Undefined]
  /\ IF gitState = "initialized"
       THEN /\ listeners' = subscribeEach(<< OpenListener >>, repositories)
            /\ notified' =
                 initialBranches(workspaceFolders.folders, repositories, HEAD)
            /\ enumerations' = enumerations + 1
            /\ stateListener' = FALSE
       ELSE /\ listeners' = << OpenListener >>
            /\ notified' = << >>
            /\ stateListener' = TRUE
            /\ UNCHANGED enumerations
  /\ sentLog' = sendAll(sentLog, 0, notified')

\* The constructor throws (a TypeError of undefined.forEach) when it enumerates
\* while no workspace is open.
GitScmConstructorThrows == gitState = "initialized" /\ ~workspaceFolders.defined

\* initScm(client): the git-backed bridge, or the no-op bridge when looking up
\* the git extension or constructing the bridge throws.
\* Mutation: no try / catch; the exception escapes and nothing is returned.
initScmUncaught ==
  IF gitExtension = "present"
    THEN /\ scm' = IF GitScmConstructorThrows THEN scm ELSE "git"
         /\ GitScmConstructor
         /\ UNCHANGED exceptionLog
    ELSE /\ UNCHANGED << scm, listeners, stateListener, notified, lastEvent,
                         enumerations, sentLog, exceptionLog >>

\* initScm(client): the git-backed bridge, or, after one log line, the no-op
\* bridge when looking up the git extension or constructing the bridge throws.
initScm ==
  IF gitExtension = "present"
    THEN /\ scm' = IF GitScmConstructorThrows THEN "noop" ELSE "git"
         /\ exceptionLog' =
              IF GitScmConstructorThrows THEN exceptionLog + 1 ELSE exceptionLog
         /\ GitScmConstructor
    ELSE /\ scm' = "noop"
         /\ exceptionLog' = exceptionLog + 1
         /\ UNCHANGED << listeners, stateListener, notified, lastEvent,
                         enumerations, sentLog >>

\* languageClient.onReady().then(() => { const scm = initScm(languageClient);
\*   ...; languageClient.onRequest(GetBranchNameForFolderRequest.type, ...) })
onReadyInitScm ==
  /\ readyQueue # << >>
  /\ Head(readyQueue) = "initScm"
  /\ readyQueue' = Tail(readyQueue)
  /\ initScm
  /\ handlers' = onRequestAll(handlers, << BranchLookupMethod >>)
  /\ UNCHANGED << languageClient, clientState, onReadyReactions, requirements,
                  error, errorDialog, selection, executedCommands,
                  transportPromise, server, children, accepted, handshake >>
  /\ UNCHANGED << gitExtension, gitState, repositories, HEAD, disposed,
                  workspaceFolders, changeLog >>
  /\ UNCHANGED locVars
  /\ UNCHANGED << deactivation, disposal, lookup, requestVars >>

\* git opens a repository it did not know and fires onDidOpenRepository; the
\* bridge's listener (r => this.subscribeToRepositoryChanges(r)) runs.
gitOpenRepository ==
  /\ NoMicrotask
  /\ gitExtension = "present"
  /\ \E r \in Repos \ Range(repositories) :
       /\ repositories' = Append(repositories, r)
       /\ lastEvent' = [type |-> "open", repo |-> r]
       /\ listeners' = IF BridgeListening
                         THEN subscribeToRepositoryChanges(listeners, r)
                         ELSE listeners
  /\ notified' = << >>
  /\ UNCHANGED << gitExtension, gitState, HEAD, stateListener, disposed,
                  workspaceFolders, enumerations, changeLog, sentLog >>
  /\ UNCHANGED << sessionVars, locVars >>
  /\ UNCHANGED handlerVars

GitStates == {"uninitialized", "initialized"}

\* Mutation: the listener enumerates on every state-change event.
onDidChangeStateAnyValue(state) ==
  /\ lastEvent' = [type |-> state, repo |-> Undefined]
  /\ IF stateListener
       THEN subscribeToAllRepositoryChanges
       ELSE /\ notified' = << >>
            /\ UNCHANGED << listeners, enumerations >>
  /\ sentLog' = sendAll(sentLog, 0, notified')

\* gitApi.onDidChangeState fires with `state`; the listener registered by the
\* constructor's else branch, if there is one, runs:
\*   state => { if (state === 'initialized') this.subscribeToAllRepositoryChanges() }
onDidChangeState(state) ==
  /\ lastEvent' = [type |-> state, repo |-> Undefined]
  /\ IF stateListener /\ state = "initialized"
       THEN subscribeToAllRepositoryChanges
       ELSE /\ notified' = << >>
            /\ UNCHANGED << listeners, enumerations >>
  /\ sentLog' = sendAll(sentLog, 0, notified')

\* git finishes its initial scan and fires onDidChangeState('initialized').
gitInitialized ==
  /\ NoMicrotask
  /\ gitExtension = "present"
  /\ gitState = "uninitialized"
  /\ gitState' = "initialized"
  /\ onDidChangeState("initialized")
  /\ UNCHANGED << gitExtension, repositories, HEAD, stateListener, disposed,
                  workspaceFolders, changeLog >>
  /\ UNCHANGED << sessionVars, locVars >>
  /\ UNCHANGED handlerVars

\* git fires onDidChangeState with the value 'uninitialized' while its scan is
\* still to come.
gitUninitialized ==
  /\ NoMicrotask
  /\ gitExtension = "present"
  /\ gitState = "uninitialized"
  /\ onDidChangeState("uninitialized")
  /\ UNCHANGED << gitExtension, gitState, repositories, HEAD, stateListener,
                  disposed, workspaceFolders, changeLog >>
  /\ UNCHANGED << sessionVars, locVars >>
  /\ UNCHANGED handlerVars

\* Mutation: a change that leaves HEAD on the same branch is not notified.
repositoryStateChangeDeduplicated ==
  /\ NoMicrotask
  /\ gitExtension = "present"
  /\ Len(changeLog) < MaxChanges
  /\ \E r \in Range(repositories), branch \in BranchNames :
       /\ HEAD' = [HEAD EXCEPT ![r] = branch]
       /\ lastEvent' = [type |-> "change", repo |-> r]
       /\ notified' = IF branch # HEAD[r]
                        THEN fireDidChange(LiveListeners, r, branch)
                        ELSE << >>
       /\ changeLog' = Append(changeLog, [repo |-> r, branch |-> branch,
                                          heard |-> ChangeListener(r) \in
                                                      Range(LiveListeners)])
  /\ sentLog' = sendAll(sentLog, Len(changeLog'), notified')
  /\ UNCHANGED << gitExtension, gitState, repositories, listeners,
                  stateListener, disposed, workspaceFolders, enumerations >>
  /\ UNCHANGED << sessionVars, locVars >>
  /\ UNCHANGED handlerVars

\* The state of an open repository changes (HEAD moves or anything else) and
\* repository.state.onDidChange fires once.
repositoryStateChange ==
  /\ NoMicrotask
  /\ gitExtension = "present"
  /\ Len(changeLog) < MaxChanges
  /\ \E r \in Range(repositories), branch \in BranchNames :
       /\ HEAD' = [HEAD EXCEPT ![r] = branch]
       /\ lastEvent' = [type |-> "change", repo |-> r]
       /\ notified' = fireDidChange(LiveListeners, r, branch)
       /\ changeLog' = Append(changeLog, [repo |-> r, branch |-> branch,
                                          heard |-> ChangeListener(r) \in
                                                      Range(LiveListeners)])
  /\ sentLog' = sendAll(sentLog, Len(changeLog'), notified')
  /\ UNCHANGED << gitExtension, gitState, repositories, listeners,
                  stateListener, disposed, workspaceFolders, enumerations >>
  /\ UNCHANGED << sessionVars, locVars >>
  /\ UNCHANGED handlerVars

\* The folders the server asks the branch of.
LookupFolders == { WorkspaceFolders[1], WorkspaceFolders[3] }

\* scm.getBranchForFolder(uri).  NoopScm returns null; GitScm evaluates
\* this.gitApi.getRepository(folderUri).state.HEAD?.name, which throws a
\* TypeError when getRepository returns null.
getBranchForFolder(bridge, repos, head, uri) ==
  IF bridge = "noop"
    THEN [outcome |-> "returned", value |-> Null]
    ELSE LET r == getRepository(repos, uri)
         IN  IF r = Undefined
               THEN [outcome |-> "threw", value |-> Undefined]
               ELSE [outcome |-> "returned", value |-> head[r]]

\* The server sends GetBranchNameForFolderRequest and the handler registered by
\* the second onReady reaction answers it:
\*   folderUri => scm.getBranchForFolder(VSCode.Uri.parse(folderUri))
branchLookup ==
  /\ NoMicrotask
  /\ clientState = "ready"
  /\ handlers[BranchLookupMethod] >= 1
  /\ scm # "none"
  /\ \E uri \in LookupFolders :
       LET answer == getBranchForFolder(scm, repositories, HEAD, uri)
       IN  lookup' = [folder |-> uri, outcome |-> answer.outcome,
                      value |-> answer.value, changes |-> Len(changeLog),
                      opened |-> Len(repositories)]
  /\ UNCHANGED << deactivation, disposal, exceptionLog, requestVars >>
  /\ UNCHANGED << sessionVars, gitVars, locVars >>

(***************************************************************************)
(* extension.ts: deactivate                                                *)
(***************************************************************************)
\* Mutation: the promise of languageClient.stop() is not returned.
deactivateForgetsPromise ==
  /\ NoMicrotask
  /\ deactivation = "none"
  /\ deactivation' = "complete"
  /\ clientState' = IF languageClient = "undefined" THEN clientState ELSE "stopping"
  /\ UNCHANGED << languageClient, onReadyReactions, readyQueue, requirements,
                  error, errorDialog, selection, executedCommands,
                  transportPromise, server, children, accepted, handshake,
                  handlers, scm >>
  /\ UNCHANGED << disposal, exceptionLog, lookup, requestVars >>
  /\ UNCHANGED << gitVars, locVars >>

\* deactivate(), called by the host when it shuts the extension down:
\*   if (!languageClient) return undefined;  return languageClient.stop();
\* With no client the host has nothing to wait for; otherwise it waits for the
\* promise of stop().
deactivate ==
  /\ NoMicrotask
  /\ deactivation = "none"
  /\ IF languageClient = "undefined"
       THEN /\ deactivation' = "complete"
            /\ UNCHANGED clientState
       ELSE /\ deactivation' = "awaiting-stop"
            /\ clientState' = "stopping"
  /\ UNCHANGED << languageClient, onReadyReactions, readyQueue, requirements,
                  error, errorDialog, selection, executedCommands,
                  transportPromise, server, children, accepted, handshake,
                  handlers, scm >>
  /\ UNCHANGED << disposal, exceptionLog, lookup, requestVars >>
  /\ UNCHANGED << gitVars, locVars >>

\* The client's shutdown of the transport completes and the promise of stop()
\* is fulfilled.
stopCompleted ==
  /\ NoMicrotask
  /\ clientState = "stopping"
  /\ clientState' = "stopped"
  /\ deactivation' = "complete"
  /\ UNCHANGED << languageClient, onReadyReactions, readyQueue, requirements,
                  error, errorDialog, selection, executedCommands,
                  transportPromise, server, children, accepted, handshake,
                  handlers, scm >>
  /\ UNCHANGED << disposal, exceptionLog, lookup, requestVars >>
  /\ UNCHANGED << gitVars, locVars >>

(***************************************************************************)
(* scm.ts: GitScm.dispose                                                  *)
(***************************************************************************)
\* The listeners whose dispose() throws: none, the first, or all of them.
ThrowingChoices(ls) == { {}, {1} \cap DOMAIN ls, DOMAIN ls }

DisposedNothing == [attempted |-> {}, failed |-> {}, threw |-> FALSE]

\* Mutation: no try / catch around d.dispose(); forEach stops at the first throw.
RECURSIVE disposeUnguarded(_, _, _)
disposeUnguarded(ls, i, throwing) ==
  IF i > Len(ls) THEN DisposedNothing
  ELSE IF i \in throwing
         THEN [attempted |-> {i}, failed |-> {i}, threw |-> TRUE]
         ELSE LET rest == disposeUnguarded(ls, i + 1, throwing)
              IN  [rest EXCEPT !.attempted = @ \cup {i}]

\* this.listeners.forEach(d => { try { d.dispose(); } catch (e) { } }), from
\* listener i on: every listener is attempted, what one throws is swallowed.
RECURSIVE dispose(_, _, _)
dispose(ls, i, throwing) ==
  IF i > Len(ls) THEN DisposedNothing
  ELSE LET rest == dispose(ls, i + 1, throwing)
       IN  [attempted |-> rest.attempted \cup {i},
            failed |-> rest.failed \cup ({i} \cap throwing),
            threw |-> rest.threw]

\* Once deactivation is complete the host disposes context.subscriptions, among
\* them the bridge initScm returned (NoopScm.dispose does nothing).
disposeSubscriptions ==
  /\ NoMicrotask
  /\ languageClient = "created"
  /\ deactivation = "complete"
  /\ ~disposal.done
  /\ IF scm = "git"
       THEN /\ \E throwing \in ThrowingChoices(listeners) :
                 LET result == dispose(listeners, 1, throwing)
                 IN  disposal' = [done |-> TRUE, listed |-> Len(listeners),
                                  attempted |-> result.attempted,
                                  failed |-> result.failed, threw |-> result.threw]
            /\ disposed' = TRUE
       ELSE /\ disposal' = [NoDisposal EXCEPT !.done = TRUE]
            /\ UNCHANGED disposed
  /\ UNCHANGED << deactivation, exceptionLog, lookup, requestVars >>
  /\ UNCHANGED << gitExtension, gitState, repositories, HEAD, listeners,
                  stateListener, lastEvent, notified, workspaceFolders,
                  enumerations, changeLog, sentLog >>
  /\ UNCHANGED << sessionVars, locVars >>

(***************************************************************************)
(* extension.ts: showAllLocations, clearLocations                          *)
(***************************************************************************)
\* SecondaryLocationsTree.showAllLocations(issue): the displayed issue and its
\* ordered locations are replaced wholesale.
TreeShowAllLocations(tree, issue) ==
  [tree EXCEPT !.issue = issue.key, !.locations = issue.locations]

\* SecondaryLocationsTree.hideLocations(): nothing is displayed.
TreeHideLocations(tree) == [tree EXCEPT !.issue = Undefined, !.locations = << >>]

\* DateTime.fromISO(creationDate).toLocaleString(DateTime.DATETIME_MED)
DateTimeMed(iso) ==
  CASE iso = "2021-03-01T10:00:00" -> "Mar 1, 2021, 10:00 AM"
    [] iso = "2021-04-02T09:30:00" -> "Apr 2, 2021, 9:30 AM"
    [] OTHER -> "Invalid DateTime"

\* `Analyzed ${createdAgo} on '${issue.connectionId}'`
AnalyzedHeader(issue) ==
  << "Analyzed", DateTimeMed(issue.creationDate), "on", issue.connectionId >>

\* Mutation: the else branch that clears the header is missing.
viewMessageKept(current, issue) ==
  IF Truthy(issue.creationDate) THEN AnalyzedHeader(issue) ELSE current

\* if (issue.creationDate) { message = `Analyzed ...` } else { message = null }
viewMessage(current, issue) ==
  IF Truthy(issue.creationDate) THEN AnalyzedHeader(issue) ELSE NoMessage

Remember(h, event) ==
  IF Len(h) < HistoryWindow THEN Append(h, event) ELSE Append(Tail(h), event)

ShowEvent(issue) == [op |-> "show", issue |-> issue.key]

ShownEvent(issue) == [op |-> "shown", issue |-> issue.key]

ClearEvent == [op |-> "clear", issue |-> Undefined]

RemoveAt(seq, i) == SubSeq(seq, 1, i - 1) \o SubSeq(seq, i + 1, Len(seq))

\* Mutation: the tree is only updated for an issue that has a creation date.
showAllLocationsDatedOnly ==
  /\ HostIdle
  /\ languageClient = "created"
  /\ Len(pendingShows) < MaxPendingShows
  /\ \E issue \in Issues :
       /\ secondaryLocationsTree' =
            IF Truthy(issue.creationDate)
              THEN TreeShowAllLocations(secondaryLocationsTree, issue)
              ELSE secondaryLocationsTree
       /\ pendingShows' = Append(pendingShows, issue)
       /\ history' = Remember(history, ShowEvent(issue))
  /\ UNCHANGED message
  /\ UNCHANGED << sessionVars, gitVars >>
  /\ UNCHANGED handlerVars

\* showAllLocations(issue) up to its await: the command or the
\* ShowTaintVulnerabilityRequest handler calls the tree, which replaces what it
\* displays, and the function is suspended.
showAllLocations ==
  /\ HostIdle
  /\ languageClient = "created"
  /\ Len(pendingShows) < MaxPendingShows
  /\ \E issue \in Issues :
       /\ secondaryLocationsTree' = TreeShowAllLocations(secondaryLocationsTree, issue)
       /\ pendingShows' = Append(pendingShows, issue)
       /\ history' = Remember(history, ShowEvent(issue))
  /\ UNCHANGED message
  /\ UNCHANGED << sessionVars, gitVars >>
  /\ UNCHANGED handlerVars

\* showAllLocations(issue) after its await, for any of the suspended calls: the
\* view's message is set from the issue's creation date, then the view reveals
\* the tree's first child (no state of this model changes with it).
showAllLocationsResumed ==
  /\ HostIdle
  /\ \E i \in DOMAIN pendingShows :
       /\ message' = viewMessage(message, pendingShows[i])
       /\ pendingShows' = RemoveAt(pendingShows, i)
       /\ history' = Remember(history, ShownEvent(pendingShows[i]))
  /\ UNCHANGED secondaryLocationsTree
  /\ UNCHANGED << sessionVars, gitVars >>
  /\ UNCHANGED handlerVars

\* Mutation: the view's message is left as it is.
clearLocationsKeepsMessage ==
  /\ HostIdle
  /\ languageClient = "created"
  /\ secondaryLocationsTree' = TreeHideLocations(secondaryLocationsTree)
  /\ history' = Remember(history, ClearEvent)
  /\ UNCHANGED << message, pendingShows >>
  /\ UNCHANGED << sessionVars, gitVars >>
  /\ UNCHANGED handlerVars

\* clearLocations(): hide the tree's locations and reset the view's message.
clearLocations ==
  /\ HostIdle
  /\ languageClient = "created"
  /\ secondaryLocationsTree' = TreeHideLocations(secondaryLocationsTree)
  /\ message' = NoMessage
  /\ history' = Remember(history, ClearEvent)
  /\ UNCHANGED pendingShows
  /\ UNCHANGED << sessionVars, gitVars >>
  /\ UNCHANGED handlerVars

(***************************************************************************)
(* extension.ts: isIgnored, performIsIgnoredCheck                          *)
(***************************************************************************)
E_OK == 0

E_FAIL == 1

E_INVALID == 128

\* What ChildProcess.exec hands its callback: no error, or an error with the
\* exit code of git; and what git wrote.
ExecResults ==
  { x \in [error : BOOLEAN, code : {E_OK, E_FAIL, E_INVALID},
            stdout : {"", "a.c"}, stderr : {"", "fatal"}] :
      x.error <=> x.code # E_OK }

isNeitherOkNorFail(code) == code \notin {E_OK, E_FAIL}

Resolved(value) == [settled |-> "resolved", value |-> value]

Rejected == [settled |-> "rejected", value |-> FALSE]

\* isIgnored(workspaceFolderPath, gitCommand): rejects when git fails with a
\* code other than 0 and 1; else false when git wrote to stderr, else whether
\* it wrote anything to stdout.
isIgnored(exec) ==
  IF exec.error /\ isNeitherOkNorFail(exec.code) THEN Rejected
  ELSE IF exec.stderr # "" THEN Resolved(FALSE)
  ELSE Resolved(exec.stdout # "")

\* What getExtension('vscode.git').exports is for an extension that is there:
\* undefined until the extension is activated, then its API, whose getAPI(1)
\* may throw (git disabled by its own setting).
GitExports == {Undefined, "api", "api-throws"}

\* performIsIgnoredCheck(fileUri, scmCheck), an async function: what its promise
\* settles to.  getExtension(...) is undefined when the git extension is
\* missing, and reading .exports of it throws before the try block is entered.
performIsIgnoredCheck(inWorkspace, extension, exports, scmCheck) ==
  IF ~inWorkspace THEN Resolved(FALSE)
  ELSE IF extension = "absent" THEN Rejected
  ELSE IF exports = Undefined THEN Resolved(FALSE)
  ELSE IF exports = "api-throws" THEN Resolved(FALSE)
  ELSE IF scmCheck.settled = "rejected" THEN Resolved(FALSE)
  ELSE Resolved(scmCheck.value)

\* The server sends ScmCheckRequest for a file inside or outside the workspace
\* folders; the handler fileUri => isIgnoredByScm(fileUri) answers it.
scmCheckRequest ==
  /\ NoMicrotask
  /\ clientState = "ready"
  /\ handlers["ScmCheckRequest"] >= 1
  /\ \E inWorkspace \in BOOLEAN, exports \in GitExports, exec \in ExecResults :
       LET scmCheck == isIgnored(exec)
           result == performIsIgnoredCheck(inWorkspace /\ workspaceFolders.defined,
                                           gitExtension, exports, scmCheck)
       IN  ignoreCheck' =
             [outcome |-> result.settled, value |-> result.value,
              inWorkspace |-> inWorkspace /\ workspaceFolders.defined,
              failed |-> \/ gitExtension = "absent"
                         \/ exports # "api"
                         \/ scmCheck.settled = "rejected"]
  /\ UNCHANGED << deactivation, disposal, exceptionLog, lookup, configVars,
                  panelVars, secretVars, paramVars, uiEffect, toolVars >>
  /\ UNCHANGED << sessionVars, gitVars, locVars >>

(***************************************************************************)
(* extension.ts: showNotificationForFirstSecretsIssue                      *)
(***************************************************************************)
ShowProblemsViewActionTitle == "Show Problems View"

\* The server sends ShowNotificationForFirstSecretsIssueRequest: the handler
\* shows the warning whatever the flag holds and, without waiting for the
\* answer, persists the flag:
\*   context.globalState.update(FIRST_SECRET_ISSUE_DETECTED_KEY, 'true')
showNotificationForFirstSecretsIssue ==
  /\ NoMicrotask
  /\ clientState = "ready"
  /\ handlers["ShowNotificationForFirstSecretsIssueRequest"] >= 1
  /\ secretRequests < MaxSecretRequests
  /\ secretRequests' = secretRequests + 1
  /\ warningsShown' = warningsShown + 1
  /\ openWarnings' = openWarnings + 1
  /\ globalState' = "true"
  /\ UNCHANGED << problemsFocused, paramVars, uiEffect, toolVars >>
  /\ UNCHANGED << deactivation, disposal, exceptionLog, lookup, configVars,
                  ignoreCheck, panelVars >>
  /\ UNCHANGED << sessionVars, gitVars, locVars >>

\* The user picks the action of a first-secret warning or dismisses it:
\*   action => { if (action === title) executeCommand('...markers.view.focus') }
firstSecretWarningAnswered ==
  /\ NoMicrotask
  /\ openWarnings > 0
  /\ openWarnings' = openWarnings - 1
  /\ \E action \in {ShowProblemsViewActionTitle, Undefined} :
       problemsFocused' =
         IF action = ShowProblemsViewActionTitle THEN problemsFocused + 1
                                                 ELSE problemsFocused
  /\ UNCHANGED << globalState, secretRequests, warningsShown, paramVars,
                  uiEffect, toolVars >>
  /\ UNCHANGED << deactivation, disposal, exceptionLog, lookup, configVars,
                  ignoreCheck, panelVars >>
  /\ UNCHANGED << sessionVars, gitVars, locVars >>

(***************************************************************************)
(* extension.ts: the handlers that execute one command                     *)
(***************************************************************************)
\* The command each of these handlers passes to VSCode.commands.executeCommand.
CommandOf(method) ==
  CASE method = "ShowSonarLintOutput" -> "SonarLint.ShowSonarLintOutput"
    [] method = "OpenJavaHomeSettings" -> "SonarLint.OpenSettings"
    [] method = "OpenPathToNodeSettings" -> "SonarLint.OpenSettings"
    [] method = "BrowseTo" -> "vscode.open"
    [] method = "OpenConnectionSettings" -> "SonarLint.OpenSettings"

CommandMethods == { "ShowSonarLintOutput", "OpenJavaHomeSettings",
                    "OpenPathToNodeSettings", "BrowseTo", "OpenConnectionSettings" }

\* getJavaConfig (java.ts) and showSecurityHotspot (hotspots.ts): the first
\* delegates to the configuration resolver and answers, the second reveals
\* the hotspot in the editor and the markers.
CollaboratorEffect(method) ==
  CASE method = "GetJavaConfigRequest" -> "java configuration resolved"
    [] method = "ShowHotspotRequest" -> "hotspot revealed"

CollaboratorMethods == { "GetJavaConfigRequest", "ShowHotspotRequest" }

\* Mutation: the handler registers itself again while it runs.
plainHandlerRegisters(regs, method) == [regs EXCEPT ![method] = @ + 1]

\* What a plain handler does to the handler table: nothing.
plainHandler(regs, method) == regs

\* The server sends one of the requests whose handler executes a command or
\* delegates to a collaborator.
plainRequest ==
  /\ NoMicrotask
  /\ clientState = "ready"
  /\ \E method \in CommandMethods \cup CollaboratorMethods :
       /\ handlers[method] >= 1
       /\ uiEffect' = IF method \in CommandMethods THEN CommandOf(method)
                                                   ELSE CollaboratorEffect(method)
       /\ handlers' = plainHandler(handlers, method)
  /\ UNCHANGED << languageClient, clientState, onReadyReactions, readyQueue,
                  requirements, error, errorDialog, selection, executedCommands,
                  transportPromise, server, children, accepted, handshake, scm >>
  /\ UNCHANGED << deactivation, disposal, exceptionLog, lookup, configVars,
                  ignoreCheck, panelVars, secretVars, paramVars, toolVars >>
  /\ UNCHANGED << gitVars, locVars >>

(***************************************************************************)
(* extension.ts: convertCompilationDB                                      *)
(***************************************************************************)
\* What compile_commands.json may hold: an array of entries, text that is not
\* JSON, JSON that is not an array.
DatabaseContents == {"entries", "malformed", "not-an-array"}

\* The file system stamps a file with its clock, which may or may not have
\* ticked since the last stamp.
Ticks == { c \in {fsClock, fsClock + 1} : c <= MaxClock }

\* Mutation: the dump is never taken as up to date.
isUpToDateNever(dump, database) == FALSE

\* FS.existsSync(buildWrapperMapFile) &&
\*   FS.statSync(buildWrapperMapFile).mtime > FS.statSync(compilationDatabaseFile).mtime
isUpToDate(dump, database) == dump.exists /\ dump.mtime > database.mtime

Snapshot(dump, database) ==
  [dumpExisted |-> dump.exists, dumpMtime |-> dump.mtime, dbMtime |-> database.mtime]

\* Another program (the build) writes or rewrites compile_commands.json.
compilationDatabaseWritten ==
  /\ \E content \in DatabaseContents, now \in Ticks :
       /\ fsClock' = now
       /\ compilationDatabase' = [exists |-> TRUE, mtime |-> now, content |-> content]
  /\ UNCHANGED << buildWrapperDump, conversions, reads, writes, lastConversion,
                  lastWrite, uncaughtExceptions >>
  /\ UNCHANGED << deactivation, disposal, exceptionLog, lookup, configVars,
                  ignoreCheck, panelVars, secretVars, paramVars, uiEffect >>
  /\ UNCHANGED << transportFaults, vmargsCall, ruleVars >>
  /\ UNCHANGED << sessionVars, gitVars, locVars >>

\* convertCompilationDB(file), called by activate for each workspace folder
\* and by the file watcher's onDidChange / onDidCreate: it returns when the
\* database is not there or the dump is up to date, and otherwise starts
\* FS.readFile and returns.
convertCompilationDB ==
  /\ languageClient = "created"
  /\ workspaceFolders.defined
  /\ conversions < MaxConversions
  /\ conversions' = conversions + 1
  /\ IF ~compilationDatabase.exists
       THEN /\ lastConversion' = "no-database"
            /\ UNCHANGED reads
       ELSE IF isUpToDate(buildWrapperDump, compilationDatabase)
         THEN /\ lastConversion' = "up-to-date"
              /\ UNCHANGED reads
         ELSE /\ lastConversion' = "reading"
              /\ reads' = Append(reads, Snapshot(buildWrapperDump, compilationDatabase))
  /\ UNCHANGED << fsClock, compilationDatabase, buildWrapperDump, writes,
                  lastWrite, uncaughtExceptions >>
  /\ UNCHANGED << deactivation, disposal, exceptionLog, lookup, configVars,
                  ignoreCheck, panelVars, secretVars, paramVars, uiEffect >>
  /\ UNCHANGED << transportFaults, vmargsCall, ruleVars >>
  /\ UNCHANGED << sessionVars, gitVars, locVars >>

\* JSON.parse(data) and the loop over the entries: the captures, or a
\* SyntaxError thrown out of the callback (nothing catches it).
parseDatabase(content) ==
  CASE content = "entries" -> [threw |-> FALSE, captures |-> "captures"]
    [] content = "not-an-array" -> [threw |-> FALSE, captures |-> "empty"]
    [] content = "malformed" -> [threw |-> TRUE, captures |-> "none"]

\* The callback of FS.readFile runs with the content the file has by then: on
\* success it parses the data and starts FS.mkdir, whose callback writes.
readFileCallback ==
  /\ reads # << >>
  /\ reads' = Tail(reads)
  /\ LET parsed == parseDatabase(compilationDatabase.content)
     IN  /\ writes' = IF parsed.threw THEN writes
                      ELSE Append(writes, [saw |-> Head(reads),
                                           captures |-> parsed.captures])
         /\ uncaughtExceptions' = IF parsed.threw THEN uncaughtExceptions + 1
                                                  ELSE uncaughtExceptions
  /\ UNCHANGED << fsClock, compilationDatabase, buildWrapperDump, conversions,
                  lastConversion, lastWrite >>
  /\ UNCHANGED << deactivation, disposal, exceptionLog, lookup, configVars,
                  ignoreCheck, panelVars, secretVars, paramVars, uiEffect >>
  /\ UNCHANGED << transportFaults, vmargsCall, ruleVars >>
  /\ UNCHANGED << sessionVars, gitVars, locVars >>

\* FS.writeFile(buildWrapperMapFile, JSON.stringify(buildWrapperDump, null, 4))
writeFile ==
  /\ writes # << >>
  /\ writes' = Tail(writes)
  /\ \E now \in Ticks :
       /\ fsClock' = now
       /\ buildWrapperDump' =
            [exists |-> TRUE, mtime |-> now, content |-> Head(writes).captures]
  /\ lastWrite' = [happened |-> TRUE, saw |-> Head(writes).saw]
  /\ UNCHANGED << compilationDatabase, conversions, reads, lastConversion,
                  uncaughtExceptions >>
  /\ UNCHANGED << deactivation, disposal, exceptionLog, lookup, configVars,
                  ignoreCheck, panelVars, secretVars, paramVars, uiEffect >>
  /\ UNCHANGED << transportFaults, vmargsCall, ruleVars >>
  /\ UNCHANGED << sessionVars, gitVars, locVars >>

(***************************************************************************)
(* extension.ts: parseVMargs                                               *)
(***************************************************************************)
\* A string is the sequence of its characters.
Quote == "\""

Backslash == "\\"

Space == " "

Chars == {"a", Space, Quote, Backslash}

\* [^\s"]
IsPlain(c) == c # Space /\ c # Quote

\* The ls.vmargs strings of at most MaxLen characters.
Lines == UNION { [1..n -> Chars] : n \in 0..MaxLen }

\* Parameter lists parseVMargs is given: none, or those pushed before it.
ParamLists == { << >>, << <<"a">> >>, << <<"a", "a">>, <<"a">> >> }

\* Index of the first double quote of s after position j, 0 when there is none.
NextQuote(s, j) ==
  IF \E k \in (j + 1)..Len(s) : s[k] = Quote
    THEN CHOOSE k \in (j + 1)..Len(s) :
           s[k] = Quote /\ \A m \in (j + 1)..(k - 1) : s[m] # Quote
    ELSE 0

\* Mutation: a double quote that is never closed runs to the end of the string.
RECURSIVE GroupEndOpenQuote(_, _)
GroupEndOpenQuote(s, j) ==
  IF j > Len(s) THEN j
  ELSE IF IsPlain(s[j]) THEN GroupEndOpenQuote(s, j + 1)
  ELSE IF s[j] = Quote
    THEN IF NextQuote(s, j) # 0 THEN GroupEndOpenQuote(s, NextQuote(s, j) + 1)
                                ELSE Len(s) + 1
  ELSE j

\* (?:[^\s"]+|"[^"]*")+ matched greedily from position j: the position after
\* the match (j itself when nothing matches there).
RECURSIVE GroupEnd(_, _)
GroupEnd(s, j) ==
  IF j > Len(s) THEN j
  ELSE IF IsPlain(s[j]) THEN GroupEnd(s, j + 1)
  ELSE IF s[j] = Quote
    THEN IF NextQuote(s, j) # 0 THEN GroupEnd(s, NextQuote(s, j) + 1) ELSE j
  ELSE j

\* vmargsLine.match(/(?:[^\s"]+|"[^"]*")+/g): the matches, left to right.
RECURSIVE matchAll(_, _)
matchAll(s, i) ==
  IF i > Len(s) THEN << >>
  ELSE LET end == GroupEnd(s, i)
       IN  IF end > i THEN << SubSeq(s, i, end - 1) >> \o matchAll(s, end)
                      ELSE matchAll(s, i + 1)

\* arg.replace(/(\\)?"/g, ($0, $1) => $1 ? $0 : ''): a double quote that
\* follows a backslash stays with it, any other double quote is removed.
RECURSIVE removeStandaloneQuotes(_, _)
removeStandaloneQuotes(arg, i) ==
  IF i > Len(arg) THEN << >>
  ELSE IF arg[i] = Backslash /\ i < Len(arg) /\ arg[i + 1] = Quote
    THEN << Backslash, Quote >> \o removeStandaloneQuotes(arg, i + 2)
  ELSE IF arg[i] = Quote THEN removeStandaloneQuotes(arg, i + 1)
  ELSE << arg[i] >> \o removeStandaloneQuotes(arg, i + 1)

\* arg.replace(/(\\)"/g, '"')
RECURSIVE unescapeQuotes(_, _)
unescapeQuotes(arg, i) ==
  IF i > Len(arg) THEN << >>
  ELSE IF arg[i] = Backslash /\ i < Len(arg) /\ arg[i + 1] = Quote
    THEN << Quote >> \o unescapeQuotes(arg, i + 2)
  ELSE << arg[i] >> \o unescapeQuotes(arg, i + 1)

\* vmargs.forEach(arg => { ...; if (params.indexOf(arg) < 0) params.push(arg) })
RECURSIVE pushEach(_, _)
pushEach(params, vmargs) ==
  IF vmargs = << >> THEN params
  ELSE LET arg == unescapeQuotes(removeStandaloneQuotes(Head(vmargs), 1), 1)
       IN  pushEach(IF arg \in Range(params) THEN params ELSE Append(params, arg),
                    Tail(vmargs))

\* parseVMargs(params, vmargsLine): the parameter list afterwards.  An empty
\* line and a line without match return at once.
parseVMargs(params, vmargsLine) ==
  IF vmargsLine = << >> THEN params
  ELSE pushEach(params, matchAll(vmargsLine, 1))

\* languageServerCommand calls parseVMargs(params, vmargs) with the value of
\* ls.vmargs.
parseVMargsCall ==
  /\ ~vmargsCall.done
  /\ vmargsCall' = [vmargsCall EXCEPT !.done = TRUE,
                      !.result = parseVMargs(vmargsCall.params, vmargsCall.vmargsLine)]
  /\ UNCHANGED << conversionVars, transportFaults, ruleVars >>
  /\ UNCHANGED << deactivation, disposal, exceptionLog, lookup, configVars,
                  ignoreCheck, panelVars, secretVars, paramVars, uiEffect >>
  /\ UNCHANGED << sessionVars, gitVars, locVars >>

(***************************************************************************)
(* extension.ts: toggleRule                                                *)
(***************************************************************************)
Levels == {"on", "off"}

\* The override a toggle made from the rule tree stores for the key: the
\* level when it differs from the default activation, none otherwise.
toggledFromTree(level, activeByDefault) ==
  IF (level = "on" /\ ~activeByDefault) \/ (level = "off" /\ activeByDefault)
    THEN level
    ELSE Undefined

\* toggleRule(level)(ruleKey): the command handler reads sonarlint.rules,
\* sets or removes the entry of the key and calls configuration.update, which
\* is applied later.  ruleKey is a bare key (code action) or a node of the
\* rule tree.
toggleRule ==
  /\ languageClient = "created"
  /\ toggles < MaxToggles
  /\ toggles' = toggles + 1
  /\ \E level \in Levels, node \in RuleNodes, bare \in BOOLEAN :
       LET override == IF bare THEN level
                               ELSE toggledFromTree(level, node.activeByDefault)
       IN  /\ ruleUpdates' = Append(ruleUpdates, [rules EXCEPT ![node.key] = override])
           /\ lastToggle' = [lastToggle EXCEPT ![node.key] =
                               [level |-> level, bare |-> bare]]
  /\ UNCHANGED rules
  /\ UNCHANGED << conversionVars, transportFaults, vmargsCall >>
  /\ UNCHANGED << deactivation, disposal, exceptionLog, lookup, configVars,
                  ignoreCheck, panelVars, secretVars, paramVars, uiEffect >>
  /\ UNCHANGED << sessionVars, gitVars, locVars >>

\* The editor applies the oldest configuration.update('rules', value) and the
\* extension's view of the settings follows.
rulesUpdated ==
  /\ ruleUpdates # << >>
  /\ rules' = Head(ruleUpdates)
  /\ ruleUpdates' = Tail(ruleUpdates)
  /\ UNCHANGED << lastToggle, toggles >>
  /\ UNCHANGED << conversionVars, transportFaults, vmargsCall >>
  /\ UNCHANGED << deactivation, disposal, exceptionLog, lookup, configVars,
                  ignoreCheck, panelVars, secretVars, paramVars, uiEffect >>
  /\ UNCHANGED << sessionVars, gitVars, locVars >>

(***************************************************************************)
(* The setting typescript.tsdk                                             *)
(***************************************************************************)
\* The user sets or unsets typescript.tsdk.  No listener of the extension
\* reacts to it: the listeners look at the section sonarlint only.
tsdkChanged ==
  /\ NoMicrotask
  /\ tsdk' = IF tsdk = NoPath THEN ConfiguredTsdk ELSE NoPath
  /\ UNCHANGED << tsPath, initializationOptions, secretVars, uiEffect, toolVars >>
  /\ UNCHANGED << deactivation, disposal, exceptionLog, lookup, configVars,
                  ignoreCheck, panelVars >>
  /\ UNCHANGED << sessionVars, gitVars, locVars >>

(***************************************************************************)
(* extension.ts: the ShowRuleDescriptionRequest handler                    *)
(***************************************************************************)
\* computeRuleDescPanelContent(context, webview, params): the rendered page.
computeRuleDescPanelContent(rule) == rule

\* Mutation: a panel is created on every request.
createsPanelAlways(panel) == TRUE

\* if (!ruleDescriptionPanel)
createsPanel(panel) == panel.id = 0

\* The server sends ShowRuleDescriptionRequest: the panel is created when the
\* variable holds none, then its html is set and it is revealed.
showRuleDescription ==
  /\ NoMicrotask
  /\ clientState = "ready"
  /\ handlers["ShowRuleDescriptionRequest"] >= 1
  /\ createsPanel(ruleDescriptionPanel) => panelsCreated < MaxPanels
  /\ \E rule \in RuleKeys :
       LET create == createsPanel(ruleDescriptionPanel)
           id == IF create THEN panelsCreated + 1 ELSE ruleDescriptionPanel.id
       IN  /\ ruleDescriptionPanel' =
                [id |-> id, html |-> computeRuleDescPanelContent(rule)]
           /\ livePanels' = IF create THEN livePanels \cup {id} ELSE livePanels
           /\ panelsCreated' = IF create THEN panelsCreated + 1 ELSE panelsCreated
           /\ panelEvent' = [type |-> "show", rule |-> rule, created |-> create,
                             existed |-> livePanels # {}]
  /\ UNCHANGED << deactivation, disposal, exceptionLog, lookup, configVars,
                  ignoreCheck, secretVars, paramVars, uiEffect, toolVars >>
  /\ UNCHANGED << sessionVars, gitVars, locVars >>

\* The user closes a rule-description panel; the listener given to its
\* onDidDispose runs: ruleDescriptionPanel = undefined.
panelDisposed ==
  /\ NoMicrotask
  /\ \E id \in livePanels :
       /\ livePanels' = livePanels \ {id}
       /\ ruleDescriptionPanel' = NoPanel
       /\ panelEvent' = [type |-> "dispose", rule |-> "", created |-> FALSE,
                         existed |-> TRUE]
  /\ UNCHANGED panelsCreated
  /\ UNCHANGED << deactivation, disposal, exceptionLog, lookup, configVars,
                  ignoreCheck, secretVars, paramVars, uiEffect, toolVars >>
  /\ UNCHANGED << sessionVars, gitVars, locVars >>

(***************************************************************************)
(* extension.ts: onConfigurationChange                                     *)
(***************************************************************************)
configKeyEquals(key, oldConfig, newConfig) == oldConfig[key] = newConfig[key]

hasSonarLintLsConfigChanged(oldConfig, newConfig) ==
  \/ ~configKeyEquals("ls.javaHome", oldConfig, newConfig)
  \/ ~configKeyEquals("ls.vmargs", oldConfig, newConfig)

hasNodeJsConfigChanged(oldConfig, newConfig) ==
  ~configKeyEquals("pathToNodeExecutable", oldConfig, newConfig)

\* Mutation: the node executable path is not compared.
sonarLintLsConfigChangedWithoutNode(oldConfig, newConfig) ==
  hasSonarLintLsConfigChanged(oldConfig, newConfig)

\* const sonarLintLsConfigChanged = hasSonarLintLsConfigChanged(currentConfig,
\*   newConfig) || hasNodeJsConfigChanged(currentConfig, newConfig)
sonarLintLsConfigChanged(oldConfig, newConfig) ==
  \/ hasSonarLintLsConfigChanged(oldConfig, newConfig)
  \/ hasNodeJsConfigChanged(oldConfig, newConfig)

RestartNow == "Restart Now"

\* The settings change to newConfig and onDidChangeConfiguration fires; the
\* listener registered by activate runs.  An event that changes none of the
\* modelled keys concerns another sonarlint key (affects) or another section.
onDidChangeConfiguration ==
  /\ HostIdle
  /\ languageClient = "created"
  /\ reloads = 0
  /\ configChanges < MaxConfigChanges
  /\ configChanges' = configChanges + 1
  /\ \E newConfig \in Configurations, affects \in BOOLEAN :
       /\ newConfig # settings => affects
       /\ settings' = newConfig
       /\ LET prompt == affects /\ sonarLintLsConfigChanged(currentConfig, newConfig)
          IN  /\ currentConfig' = IF prompt THEN newConfig ELSE currentConfig
              /\ restartPrompts' = IF prompt THEN restartPrompts + 1
                                             ELSE restartPrompts
              /\ configEvent' =
                   [affects |-> affects,
                    altered |-> \E k \in StartupKeys : settings[k] # newConfig[k],
                    remembered |-> \A k \in StartupKeys :
                                     currentConfig[k] = newConfig[k],
                    prompted |-> prompt]
  /\ UNCHANGED << restartSelection, reloads >>
  /\ UNCHANGED << ignoreCheck, panelVars, secretVars, paramVars, uiEffect, toolVars >>
  /\ UNCHANGED << deactivation, disposal, exceptionLog, lookup >>
  /\ UNCHANGED << sessionVars, gitVars, locVars >>

\* The user answers a restart prompt or dismisses it (undefined):
\*   selection => { if (action === selection) executeCommand(restartId) }
restartPromptAnswered ==
  /\ HostIdle
  /\ reloads = 0
  /\ restartPrompts > 0
  /\ restartPrompts' = restartPrompts - 1
  /\ \E picked \in {RestartNow, Undefined} :
       /\ restartSelection' = picked
       /\ reloads' = IF RestartNow = picked THEN reloads + 1 ELSE reloads
  /\ UNCHANGED << settings, currentConfig, configChanges, configEvent >>
  /\ UNCHANGED << ignoreCheck, panelVars, secretVars, paramVars, uiEffect, toolVars >>
  /\ UNCHANGED << deactivation, disposal, exceptionLog, lookup >>
  /\ UNCHANGED << sessionVars, gitVars, locVars >>

(***************************************************************************)
(* Specification of the session and the SCM bridge                         *)
(***************************************************************************)
Next ==
  \/ activate
  \/ requirementsResolved
  \/ requirementsRejected
  \/ errorDialogAnswered
  \/ listenCallback
  \/ connectionAccepted
  \/ sendInitialize
  \/ initializeResult
  \/ onReadyInstallHandlers
  \/ onReadyInitScm
  \/ gitOpenRepository
  \/ gitInitialized
  \/ gitUninitialized
  \/ repositoryStateChange
  \/ deactivate
  \/ stopCompleted
  \/ disposeSubscriptions

Spec == Init /\ [][Next]_vars

\* The reactions of a fulfilled promise always get to run: the event loop
\* drains its microtask queue.
FairSpec ==
  /\ Spec
  /\ WF_vars(onReadyInstallHandlers)
  /\ WF_vars(onReadyInitScm)

(***************************************************************************)
(* Specification of the SCM bridge in a session that starts: the git events *)
(* and the server's branch lookups arrive in any order                     *)
(***************************************************************************)
NextBridge ==
  \/ activate
  \/ requirementsResolved
  \/ listenCallback
  \/ connectionAccepted
  \/ sendInitialize
  \/ initializeResult
  \/ onReadyInstallHandlers
  \/ onReadyInitScm
  \/ gitOpenRepository
  \/ gitInitialized
  \/ repositoryStateChange
  \/ branchLookup

SpecBridge == Init /\ [][NextBridge]_vars

(***************************************************************************)
(* Specification of the secondary-location tree: the extension is activated *)
(* and the show / clear commands and requests arrive in any order          *)
(***************************************************************************)
NextLocations ==
  \/ activate
  \/ showAllLocations
  \/ showAllLocationsResumed
  \/ clearLocations

SpecLocations == Init /\ [][NextLocations]_vars

(***************************************************************************)
(* Specification of the request handlers: the session starts and the       *)
(* server's requests and the user's panel closings arrive in any order     *)
(***************************************************************************)
NextRequests ==
  \/ activate
  \/ requirementsResolved
  \/ listenCallback
  \/ connectionAccepted
  \/ sendInitialize
  \/ initializeResult
  \/ onReadyInstallHandlers
  \/ onReadyInitScm
  \/ scmCheckRequest
  \/ showRuleDescription
  \/ panelDisposed

SpecRequests == Init /\ [][NextRequests]_vars

(***************************************************************************)
(* Specification of the conversion: the extension is activated, the build  *)
(* writes compilation databases and conversions run in any order           *)
(***************************************************************************)
NextConversion ==
  \/ activate
  \/ compilationDatabaseWritten
  \/ convertCompilationDB
  \/ readFileCallback
  \/ writeFile

SpecConversion == Init /\ [][NextConversion]_vars

(***************************************************************************)
(* Specification of the transport: the session starts and the listening    *)
(* socket or the child may fail                                            *)
(***************************************************************************)
NextTransport ==
  \/ activate
  \/ requirementsResolved
  \/ requirementsRejected
  \/ errorDialogAnswered
  \/ listenCallback
  \/ listenError
  \/ spawnError
  \/ connectionAccepted
  \/ sendInitialize
  \/ initializeResult
  \/ onReadyInstallHandlers
  \/ onReadyInitScm

SpecTransport == Init /\ [][NextTransport]_vars

(***************************************************************************)
(* Specification of parseVMargs: any parameter list, any ls.vmargs string  *)
(***************************************************************************)
InitAnyVMargs ==
  /\ InitSession /\ InitGit /\ InitLocations /\ InitHandlers /\ InitRules
  /\ globalState = Undefined
  /\ \E params \in ParamLists, vmargsLine \in Lines :
       vmargsCall = [params |-> params, vmargsLine |-> vmargsLine,
                     done |-> FALSE, result |-> << >>]

NextVMargs == parseVMargsCall

SpecVMargs == InitAnyVMargs /\ [][NextVMargs]_vars

(***************************************************************************)
(* Specification of the rule overrides: the extension is activated and     *)
(* rules are toggled in any order                                          *)
(***************************************************************************)
NextRules ==
  \/ activate
  \/ toggleRule
  \/ rulesUpdated

SpecRules == Init /\ [][NextRules]_vars

(***************************************************************************)
(* Specification of the router: the session starts and the server sends    *)
(* its requests in any order                                               *)
(***************************************************************************)
NextRouter ==
  \/ activate
  \/ requirementsResolved
  \/ listenCallback
  \/ connectionAccepted
  \/ sendInitialize
  \/ initializeResult
  \/ onReadyInstallHandlers
  \/ onReadyInitScm
  \/ scmCheckRequest
  \/ showRuleDescription
  \/ showNotificationForFirstSecretsIssue
  \/ plainRequest

SpecRouter == Init /\ [][NextRouter]_vars

(***************************************************************************)
(* Specification of the initialization parameters: the session starts on   *)
(* any installation, typescript.tsdk changes and first-secret requests     *)
(* arrive in any order                                                     *)
(***************************************************************************)
NextParameters ==
  \/ activate
  \/ requirementsResolved
  \/ listenCallback
  \/ connectionAccepted
  \/ sendInitialize
  \/ initializeResult
  \/ onReadyInstallHandlers
  \/ onReadyInitScm
  \/ showNotificationForFirstSecretsIssue
  \/ firstSecretWarningAnswered
  \/ tsdkChanged

SpecParameters == InitAnyInstallation /\ [][NextParameters]_vars

(***************************************************************************)
(* Specification of the configuration listener: the extension is activated *)
(* and the settings change in any way                                      *)
(***************************************************************************)
NextConfiguration ==
  \/ activate
  \/ onDidChangeConfiguration
  \/ restartPromptAnswered

SpecConfiguration == Init /\ [][NextConfiguration]_vars

(***************************************************************************)
(* Properties                                                              *)
(***************************************************************************)
\* Number of notifications of the last event addressed to `folder`.
NotifiedCount(folder) ==
  Cardinality({ k \in DOMAIN notified : notified[k].folder = folder })

\* The bridge is alive and has enumerated git's repositories: the state-change
\* events from here on are the "subsequent" ones.
BridgeEnumerated == scm = "git" /\ ~disposed /\ gitState = "initialized"

\* C1: whatever the order of the repository-opened, initialization-complete
\* and state-change events before it, a state-change event of a repository
\* (subsequent to the bridge's enumeration) sends exactly one
\* didLocalBranchNameChange notification to every workspace folder whose URI
\* string starts with the repository's root URI string, carrying the
\* repository's current HEAD name, and none to the other folders.
C1_OneNotificationPerFolder ==
  (lastEvent.type = "change" /\ BridgeEnumerated) =>
    /\ \A i \in DOMAIN workspaceFolders.folders :
         NotifiedCount(workspaceFolders.folders[i]) =
           IF StartsWith(workspaceFolders.folders[i], rootUri(lastEvent.repo))
             THEN 1 ELSE 0
    /\ \A k \in DOMAIN notified : notified[k].branchName = HEAD[lastEvent.repo]

\* The sockets the session uses as its transport.
TransportSockets == {transportPromise.reader, transportPromise.writer} \ {Undefined}

C3_SpawnAfterListen ==
  /\ server.state # "none" => server.requested = 0
  /\ children # << >> => server.state = "listening" /\ server.port \in OsPorts
  /\ \A i \in DOMAIN children : children[i] = server.port

C3_Witness ==
  /\ server.state = "listening"
  /\ server.port = MaxPort
  /\ children = << MaxPort >>

C5_RequirementFailure ==
  /\ requirements = "failed" =>
       /\ errorDialog # "none"
       /\ transportPromise.state = "rejected"
       /\ server.state = "none"
       /\ children = << >>
       /\ clientState # "ready"
  /\ executedCommands # {} =>
       /\ requirements = "failed"
       /\ Truthy(error.label)
       /\ selection = error.label

C5_Witness ==
  /\ requirements = "failed"
  /\ executedCommands = {"sonarlint.installManagedJre"}
  /\ server.state = "none"

\* The onReady reactions have all run.
ReadyAndSettled == handshake = "done" /\ readyQueue = << >>

RouterAndScmUp ==
  /\ \A i \in DOMAIN RouterMethods : handlers[RouterMethods[i]] >= 1
  /\ scm \in {"git", "noop"}

\* As long as the session has not reached ready nothing is registered.
NothingBeforeReady ==
  /\ handshake # "done" =>
       /\ \A m \in CustomMethods : handlers[m] = 0
       /\ scm = "none"
       /\ listeners = << >>
       /\ ~stateListener
  /\ ReadyAndSettled => RouterAndScmUp

\* C7: as long as the session has not reached ready, no custom request
\* handler is registered and the SCM bridge does not exist and holds no
\* subscription (so neither happens if it never becomes ready); once it is
\* ready, the router's handlers get registered and the SCM bridge gets
\* initialised.
C7_OnlyAfterReady ==
  /\ []NothingBeforeReady
  /\ (clientState = "ready") ~> RouterAndScmUp

C7_Witness ==
  /\ clientState = "ready"
  /\ scm = "git"
  /\ Len(listeners) >= 2
  /\ handlers["ShowTaintVulnerabilityRequest"] = 1

\* The last n remembered events, oldest first (<< >> when fewer are remembered).
LastEvents(n) ==
  IF Len(history) < n THEN << >>
  ELSE SubSeq(history, Len(history) - n + 1, Len(history))

\* show(a) ran to completion and then show(b) ran to completion.
ShownInTurn(a, b) ==
  LastEvents(4) = << ShowEvent(a), ShownEvent(a), ShowEvent(b), ShownEvent(b) >>

\* C8: after show(issue) followed by show(issue2) the tree displays exactly the
\* locations of issue2, in the order supplied, and none of issue's.
C8_ShowReplaces ==
  \A a, b \in Issues :
    ShownInTurn(a, b) =>
      /\ secondaryLocationsTree.issue = b.key
      /\ secondaryLocationsTree.locations = b.locations

C8_Witness ==
  /\ ShownInTurn(TaintIssue, LocalIssue)
  /\ secondaryLocationsTree.locations = << "L2", "L1" >>

\* C9: right after clear(), whatever was shown before, the tree displays no
\* location and the view's message is null.
C9_ClearEmpties ==
  LastEvents(1) = << ClearEvent >> =>
    /\ secondaryLocationsTree.issue = Undefined
    /\ secondaryLocationsTree.locations = << >>
    /\ message = NoMessage

C9_Witness ==
  /\ LastEvents(3) = << ShowEvent(TaintIssue), ShownEvent(TaintIssue), ClearEvent >>
  /\ secondaryLocationsTree = EmptyTree
  /\ message = NoMessage

\* C10: when a show request completes, the view's message is the text
\* formatted from the issue's creation timestamp if the issue carries one and
\* null otherwise, so the header of an issue shown before does not survive
\* the show of an issue without timestamp.
C10_HeaderFollowsIssue ==
  \A issue \in Issues :
    LastEvents(1) = << ShownEvent(issue) >> =>
      message = IF issue.creationDate = Undefined
                  THEN NoMessage
                  ELSE << "Analyzed", DateTimeMed(issue.creationDate), "on",
                          issue.connectionId >>

C10_Witness ==
  /\ LastEvents(3) =
       << ShownEvent(TaintIssue), ShowEvent(LocalIssue), ShownEvent(LocalIssue) >>
  /\ message = NoMessage

(***************************************************************************)
(* Source-control bridge: enumeration, disposal, lookup                    *)
(***************************************************************************)
\* Some open repository's root contains the folder.
InSomeRepository(folder) ==
  \E r \in Range(repositories) : IsDescendant(rootUri(r), folder)

\* The bridge has just been constructed and git was already initialized.
ConstructedInitialized == lastEvent.type = "construct" /\ gitState = "initialized"

\* Every known repository has exactly `n` change subscriptions of the bridge.
SubscribedToEach(n) ==
  \A r \in Range(repositories) : Occurrences(listeners, ChangeListener(r)) = n

\* C11 (as claimed): when git is already initialized at construction, the
\* bridge subscribes to the change events of every known repository and pushes
\* the current branch for every workspace folder contained in some
\* repository's root, and only for those folders.
C11_PushOnlyContained ==
  ConstructedInitialized =>
    /\ SubscribedToEach(1)
    /\ \A i \in DOMAIN workspaceFolders.folders :
         NotifiedCount(workspaceFolders.folders[i]) =
           IF InSomeRepository(workspaceFolders.folders[i]) THEN 1 ELSE 0

\* C11 (amended): when git is already initialized at construction, the bridge
\* subscribes to the change events of every known repository and pushes one
\* notification for every workspace folder: the HEAD name of the repository
\* that contains the folder, or absent when HEAD is detached or no repository
\* contains the folder.
C11_PushEveryFolder ==
  ConstructedInitialized =>
    /\ SubscribedToEach(1)
    /\ \A i \in DOMAIN workspaceFolders.folders :
         NotifiedCount(workspaceFolders.folders[i]) = 1
    /\ \A k \in DOMAIN notified :
         LET holding == { r \in Range(repositories) :
                            IsDescendant(rootUri(r), notified[k].folder) }
         IN  IF holding = {}
               THEN notified[k].branchName = Undefined
               ELSE \E r \in holding : notified[k].branchName = HEAD[r]

C11_Witness ==
  /\ ConstructedInitialized
  /\ scm = "git"
  /\ Len(repositories) = 2
  /\ Len(notified) = Len(WorkspaceFolders)
  /\ \E k \in DOMAIN notified : notified[k].branchName = Undefined
  /\ \E k \in DOMAIN notified :
       notified[k].folder = rootUri("r1") /\ notified[k].branchName = "main"
  /\ \E k \in DOMAIN notified :
       notified[k].folder = rootUri("r2") /\ notified[k].branchName = Undefined

\* The initial pushes (those of an enumeration) sent so far for `folder`.
InitialPushes(folder) ==
  Cardinality({ k \in DOMAIN sentLog :
                  sentLog[k].cause = 0 /\ sentLog[k].folder = folder })

\* C12: a bridge constructed while git is not initialized enumerates nothing
\* and pushes no initial branch as long as git stays uninitialized, whatever
\* state-change events with another value fire; the state-change event
\* 'initialized' performs the enumeration and the initial push, once.
C12_DeferredEnumeration ==
  stateListener =>
    /\ gitState = "uninitialized" =>
         /\ enumerations = 0
         /\ \A k \in DOMAIN sentLog : sentLog[k].cause # 0
    /\ lastEvent.type = "uninitialized" => notified = << >>
    /\ gitState = "initialized" =>
         /\ enumerations = 1
         /\ \A i \in DOMAIN workspaceFolders.folders :
              InitialPushes(workspaceFolders.folders[i]) = 1
    /\ lastEvent.type = "initialized" =>
         /\ \A r \in Range(repositories) :
              Occurrences(listeners, ChangeListener(r)) >= 1
         /\ Len(notified) = Len(workspaceFolders.folders)

C12_Witness ==
  /\ stateListener
  /\ lastEvent.type = "initialized"
  /\ enumerations = 1
  /\ Len(repositories) = 2
  /\ Len(notified) = Len(WorkspaceFolders)
  /\ changeLog # << >>

\* C13: GitScm.dispose never throws, and it attempts to dispose every
\* listener of its list, also those that come after a listener whose dispose
\* threw.
C13_DisposeIsolatesFailures ==
  (disposal.done /\ scm = "git") =>
    /\ ~disposal.threw
    /\ disposal.listed >= 1
    /\ disposal.attempted = 1 .. disposal.listed

C13_Witness ==
  /\ disposal.done
  /\ scm = "git"
  /\ disposal.listed >= 3
  /\ disposal.failed = {1}
  /\ disposal.attempted = 1 .. disposal.listed

(***************************************************************************)
(* Deactivation                                                            *)
(***************************************************************************)
\* Nothing of the session exists: the module state is as it was loaded.
SessionUntouched ==
  /\ clientState = "not-started"
  /\ requirements = "idle"
  /\ transportPromise = NoPromise
  /\ server = NoServer
  /\ children = << >>
  /\ handshake = "none"
  /\ scm = "none"
  /\ ~disposal.done
  /\ secondaryLocationsTree = NoTree

\* C17: with no session object, deactivate returns at once and touches
\* nothing; otherwise the host is handed the promise of stop(), so it sees the
\* deactivation complete only when the client's shutdown has completed.
C17_DeactivateAwaitsStop ==
  /\ languageClient = "undefined" => SessionUntouched
  /\ (languageClient = "created" /\ deactivation = "awaiting-stop") =>
       clientState = "stopping"
  /\ (languageClient = "created" /\ deactivation = "complete") =>
       clientState = "stopped"
  /\ clientState \in {"stopping", "stopped"} => deactivation # "none"

C17_Witness ==
  /\ languageClient = "created"
  /\ deactivation = "complete"
  /\ clientState = "stopped"
  /\ handshake = "done"
  /\ transportPromise.state = "resolved"

(***************************************************************************)
(* initScm and the branch lookup                                           *)
(***************************************************************************)
\* C14: initScm never throws.  It returns the git-backed bridge when the git
\* extension is there and constructing the bridge does not throw; when the
\* extension is missing or the construction throws it logs one line and
\* returns the no-op bridge, which answers null for every folder and sends no
\* notification.
C14_InitScmNeverThrows ==
  /\ ReadyAndSettled => scm \in {"git", "noop"}
  /\ scm = "git" => gitExtension = "present" /\ exceptionLog = 0
  /\ (ReadyAndSettled /\ gitExtension = "absent") => scm = "noop"
  /\ (scm = "noop" /\ gitExtension = "present") => ~workspaceFolders.defined
  /\ scm = "noop" =>
       /\ exceptionLog = 1
       /\ sentLog = << >>
       /\ lookup.outcome # "none" =>
            lookup.outcome = "returned" /\ lookup.value = Null

C14_Witness ==
  /\ scm = "noop"
  /\ gitExtension = "present"
  /\ Len(listeners) >= 2
  /\ changeLog # << >>
  /\ lookup.outcome = "returned"

\* No git event happened since the lookup was answered.
LookupFresh ==
  lookup.changes = Len(changeLog) /\ lookup.opened = Len(repositories)

\* C15: a branch-lookup request for any folder is answered, never failed with
\* an error: the answer is the current HEAD name of the folder's repository, or
\* absence when HEAD is detached or the folder belongs to no repository.
C15_LookupNeverFails ==
  lookup.outcome # "none" =>
    /\ lookup.outcome = "returned"
    /\ (LookupFresh /\ scm = "git") =>
         lookup.value =
           IF InSomeRepository(lookup.folder)
             THEN HEAD[getRepository(repositories, lookup.folder)]
             ELSE Undefined

(***************************************************************************)
(* Order of the branch notifications                                       *)
(***************************************************************************)
\* The bridge had a listener on the repository when its k-th change fired.
Heard(k) == changeLog[k].heard

\* C16: for each workspace folder, the notifications caused by repository
\* state-change events reach the server in the order of those events, each
\* carrying the branch of its event; every event the bridge hears notifies
\* every folder under the repository's root, also when the branch is the same
\* as in the previous notification.
C16_InEventOrder ==
  /\ \A i, j \in DOMAIN sentLog :
       (i < j /\ sentLog[i].cause > 0 /\ sentLog[j].cause > 0
          /\ sentLog[i].folder = sentLog[j].folder)
         => sentLog[i].cause <= sentLog[j].cause
  /\ \A i \in DOMAIN sentLog :
       sentLog[i].cause > 0 =>
         /\ sentLog[i].cause \in DOMAIN changeLog
         /\ sentLog[i].branchName = changeLog[sentLog[i].cause].branch
  /\ \A k \in DOMAIN changeLog :
       Heard(k) =>
         \A f \in DOMAIN workspaceFolders.folders :
           StartsWith(workspaceFolders.folders[f], rootUri(changeLog[k].repo)) =>
             \E i \in DOMAIN sentLog :
               /\ sentLog[i].cause = k
               /\ sentLog[i].folder = workspaceFolders.folders[f]

C16_Witness ==
  /\ Len(changeLog) = 2
  /\ Heard(1) /\ Heard(2)
  /\ changeLog[1].repo = changeLog[2].repo
  /\ changeLog[1].branch = changeLog[2].branch
  /\ \E i, j \in DOMAIN sentLog :
       /\ i < j
       /\ sentLog[i].cause = 1 /\ sentLog[j].cause = 2
       /\ sentLog[i].folder = sentLog[j].folder
       /\ sentLog[i].branchName = sentLog[j].branchName

(***************************************************************************)
(* Configuration changes                                                   *)
(***************************************************************************)
\* C18: a configuration change that alters the runtime home, the startup
\* arguments or the node executable path shows a restart prompt and restarts
\* nothing by itself: the reload command is executed only when the user picks
\* 'Restart Now'; a sonarlint configuration change that leaves the three keys
\* equal to the remembered configuration shows no prompt (the remembered
\* configuration always agrees with the settings on the three keys).
C18_RestartOnlyOnRequest ==
  /\ configEvent.altered => configEvent.prompted
  /\ (configEvent.affects /\ configEvent.remembered) => ~configEvent.prompted
  /\ reloads > 0 => restartSelection = RestartNow
  /\ restartSelection # RestartNow => reloads = 0
  /\ languageClient = "created" =>
       \A k \in StartupKeys : currentConfig[k] = settings[k]

C18_Witness ==
  /\ configChanges = 2
  /\ configEvent.altered
  /\ configEvent.prompted
  /\ settings["pathToNodeExecutable"] # DefaultSettings["pathToNodeExecutable"]
  /\ settings["ls.javaHome"] = DefaultSettings["ls.javaHome"]
  /\ settings["ls.vmargs"] = DefaultSettings["ls.vmargs"]
  /\ restartSelection = Undefined
  /\ restartPrompts = 1
  /\ reloads = 0

(***************************************************************************)
(* Request handlers                                                        *)
(***************************************************************************)
\* C19: the source-control ignore check always resolves to a boolean and never
\* rejects; a file outside every workspace folder, a missing git extension and
\* any exception during the check yield false.
C19_IgnoreCheckNeverRejects ==
  ignoreCheck.outcome # "none" =>
    /\ ignoreCheck.outcome = "resolved"
    /\ ignoreCheck.value \in BOOLEAN
    /\ (~ignoreCheck.inWorkspace \/ ignoreCheck.failed) => ~ignoreCheck.value

\* C20: at most one rule-description panel exists, and it is the one the
\* variable holds; a show request creates a panel exactly when none exists and
\* otherwise reuses the existing one, so after a dispose the next request
\* creates a fresh panel; the panel shows the rule of the last request.
C20_SinglePanel ==
  /\ Cardinality(livePanels) <= 1
  /\ livePanels = IF ruleDescriptionPanel.id = 0 THEN {}
                                                ELSE {ruleDescriptionPanel.id}
  /\ panelEvent.type = "show" =>
       /\ panelEvent.created <=> ~panelEvent.existed
       /\ Cardinality(livePanels) = 1
       /\ ruleDescriptionPanel.html = computeRuleDescPanelContent(panelEvent.rule)
  /\ panelEvent.type = "dispose" => livePanels = {}

C20_Witness ==
  /\ panelsCreated = 2
  /\ panelEvent.type = "show"
  /\ ~panelEvent.created
  /\ panelEvent.existed
  /\ livePanels = {2}

(***************************************************************************)
(* First-secret notice, request handlers, initialization parameters        *)
(***************************************************************************)
\* C21: across any sequence of first-secret requests the warning is shown at
\* most once, every handled request leaves the flag persisted whatever the
\* user answers, and initialization parameters computed afterwards report
\* firstSecretDetected as 'true'.
C21_WarnedOnce ==
  /\ warningsShown <= 1
  /\ secretRequests > 0 =>
       /\ globalState = "true"
       /\ initializationOptionsOf(tsPath, globalState).firstSecretDetected = "true"

\* A step of one of the custom request handlers.
HandlerStep ==
  \/ scmCheckRequest
  \/ showRuleDescription
  \/ showNotificationForFirstSecretsIssue
  \/ plainRequest

\* C26 (as stated): no custom request handler changes the session's own
\* state, and every handler's side effects are confined to UI surfaces and
\* the logger: the session, the bridge, the settings and the persisted global
\* state are left as they were.
C26_HandlersConfined ==
  [][HandlerStep =>
       UNCHANGED << sessionVars, gitVars, settings, currentConfig, globalState >>]_vars

\* C26 (amended): no custom request handler changes the session's own state
\* (transport, readiness, handler table), the bridge or the settings; the
\* only state outside UI surfaces and logger that a handler writes is the
\* persisted first-secret flag, which the first-secret handler sets to 'true'.
C26_HandlersLeaveSession ==
  [][HandlerStep =>
       /\ UNCHANGED << sessionVars, gitVars, settings, currentConfig >>
       /\ globalState' # globalState =>
            /\ secretRequests' = secretRequests + 1
            /\ globalState' = "true"]_vars

C26_Witness ==
  /\ clientState = "ready"
  /\ transportPromise.state = "resolved"
  /\ \A m \in CustomMethods : handlers[m] = 1
  /\ secretRequests = 2
  /\ globalState = "true"
  /\ uiEffect = "vscode.open"
  /\ panelsCreated = 1
  /\ ignoreCheck.outcome = "resolved"

\* C27: the initialization parameters sent at handshake are fixed before the
\* handshake begins: the TypeScript location is the one activate computed and
\* the flag is the one persisted before the session, and nothing that happens
\* after activation (a change of typescript.tsdk, a first-secret request)
\* changes tsPath or the parameters once sent.
C27_ParametersFixed ==
  /\ [](initializationOptions.sent =>
          /\ initializationOptions.typeScriptLocation = dirname(dirname(tsPath))
          /\ secretRequests = 0 =>
               initializationOptions.firstSecretDetected =
                 IF globalState = "true" THEN "true" ELSE "false")
  /\ [][initializationOptions.sent =>
          initializationOptions' = initializationOptions]_vars
  /\ [][languageClient = "created" => tsPath' = tsPath]_vars

C27_Witness ==
  /\ clientState = "ready"
  /\ initializationOptions.sent
  /\ tsdk = ConfiguredTsdk
  /\ initializationOptions.typeScriptLocation = << "vscode", "extensions", "node_modules" >>
  /\ initializationOptions.firstSecretDetected = "false"
  /\ globalState = "true"

(***************************************************************************)
(* Conversion of compilation databases                                     *)
(***************************************************************************)
\* A call of convertCompilationDB that finds the dump newer than the database.
ConvertedUpToDate ==
  /\ conversions' = conversions + 1
  /\ compilationDatabase.exists
  /\ buildWrapperDump.exists
  /\ buildWrapperDump.mtime > compilationDatabase.mtime

\* C22 (as stated): the dump is written only when it is missing or older than
\* its compilation database, and a conversion that finds the dump newer than
\* the database performs no write: repeating it is a no-op.
C22_WrittenOnlyWhenOlder ==
  /\ [](lastWrite.happened =>
          \/ ~lastWrite.saw.dumpExisted
          \/ lastWrite.saw.dumpMtime < lastWrite.saw.dbMtime)
  /\ [][ConvertedUpToDate =>
          UNCHANGED << buildWrapperDump, reads, writes, lastWrite >>]_vars

\* C22 (amended): the dump is written only by a conversion that, when it was
\* called, found the dump missing or not newer than the database (older, or
\* stamped with the same modification time), and a conversion that finds the
\* dump newer than the database starts no read and no write.
C22_WrittenUnlessNewer ==
  /\ [](lastWrite.happened =>
          \/ ~lastWrite.saw.dumpExisted
          \/ lastWrite.saw.dumpMtime <= lastWrite.saw.dbMtime)
  /\ [][ConvertedUpToDate =>
          UNCHANGED << buildWrapperDump, reads, writes, lastWrite >>]_vars

C22_Witness ==
  /\ lastWrite.happened
  /\ lastConversion = "up-to-date"
  /\ conversions = 2
  /\ reads = << >>
  /\ writes = << >>
  /\ buildWrapperDump.exists
  /\ buildWrapperDump.mtime > compilationDatabase.mtime

\* C23: when the compilation database cannot be parsed the conversion aborts
\* silently: the callback that reads it neither creates nor modifies the dump,
\* starts no write, and throws nothing into the host.
C23_MalformedAbortsSilently ==
  [][Len(reads') < Len(reads) /\ compilationDatabase.content = "malformed" =>
       UNCHANGED << buildWrapperDump, writes, lastWrite, uncaughtExceptions >>]_vars

(***************************************************************************)
(* Transport failures                                                      *)
(***************************************************************************)
\* C24: when the child fails to spawn or the listening socket fails, the
\* failure is surfaced through the logger, nothing is thrown into the host
\* and the session never reaches ready.
C24_TransportFailureLogged ==
  transportFaults # {} =>
    /\ exceptionLog > 0
    /\ uncaughtExceptions = 0
    /\ clientState # "ready"

(***************************************************************************)
(* parseVMargs                                                             *)
(***************************************************************************)
\* The elements of a set of numbers in ascending order.
RECURSIVE Ascending(_)
Ascending(S) ==
  IF S = {} THEN << >>
  ELSE LET least == CHOOSE x \in S : \A y \in S : x <= y
       IN  << least >> \o Ascending(S \ {least})

QuotesUpTo(s, p) == Cardinality({ k \in 1..p : s[k] = Quote })

\* The double quotes of s pair up from the left: first with second, third
\* with fourth; with an odd number of them the last one has no partner.
Unpaired(s, p) ==
  /\ s[p] = Quote
  /\ QuotesUpTo(s, p) = QuotesUpTo(s, Len(s))
  /\ QuotesUpTo(s, Len(s)) % 2 = 1

\* Position p lies in a double-quoted section: on one of its two quotes or
\* between them.
InSection(s, p) ==
  IF s[p] = Quote THEN ~Unpaired(s, p)
  ELSE /\ QuotesUpTo(s, p) % 2 = 1
       /\ QuotesUpTo(s, Len(s)) > QuotesUpTo(s, p)

\* Whitespace outside the double-quoted sections separates the tokens.
SeparatesStated(s, p) == s[p] = Space /\ ~InSection(s, p)

\* So does a double quote that has no partner.
Separates(s, p) == SeparatesStated(s, p) \/ Unpaired(s, p)

\* The tokens of s, in order of appearance: the maximal runs of positions
\* that do not separate.
TokensOf(s, Sep(_, _)) ==
  LET starts == { p \in DOMAIN s : ~Sep(s, p) /\ (p = 1 \/ Sep(s, p - 1)) }
      EndOf(p) == CHOOSE q \in p..Len(s) :
                    /\ \A m \in p..q : ~Sep(s, m)
                    /\ q = Len(s) \/ Sep(s, q + 1)
      order == Ascending(starts)
  IN  [i \in DOMAIN order |-> SubSeq(s, order[i], EndOf(order[i]))]

\* The token without its unescaped double quotes and with its escaped double
\* quotes unescaped: a double quote stays when a backslash precedes it, and
\* that backslash goes.
Unquoted(token) ==
  LET kept == { p \in DOMAIN token :
                  /\ token[p] = Quote => p > 1 /\ token[p - 1] = Backslash
                  /\ token[p] = Backslash =>
                       ~(p < Len(token) /\ token[p + 1] = Quote) }
      order == Ascending(kept)
  IN  [i \in DOMAIN order |-> token[order[i]]]

\* The list after the tokens are appended in order, skipping what the list
\* already holds.
Appended(params, tokens) ==
  LET args == [i \in DOMAIN tokens |-> Unquoted(tokens[i])]
      fresh == { i \in DOMAIN args :
                   /\ args[i] \notin Range(params)
                   /\ \A j \in 1..(i - 1) : args[j] # args[i] }
      order == Ascending(fresh)
  IN  params \o [i \in DOMAIN order |-> args[order[i]]]

\* C25 (as stated): parseVMargs appends to the list, in order of appearance,
\* each whitespace-separated token of the string (a double-quoted section is
\* part of one token), unescaped double quotes removed and escaped ones
\* unescaped, skipping tokens already in the list; the entries there before
\* stay in place and an empty string leaves the list unchanged.
C25_AppendsEachToken ==
  vmargsCall.done =>
    vmargsCall.result =
      Appended(vmargsCall.params, TokensOf(vmargsCall.vmargsLine, SeparatesStated))

\* C25 (amended): the same, the tokens being separated by the whitespace
\* outside the double-quoted sections and by a double quote that has no
\* closing partner; a section runs from a double quote to the next one,
\* escaped or not.
C25_AppendsEachClosedToken ==
  vmargsCall.done =>
    /\ vmargsCall.result =
         Appended(vmargsCall.params, TokensOf(vmargsCall.vmargsLine, Separates))
    /\ SubSeq(vmargsCall.result, 1, Len(vmargsCall.params)) = vmargsCall.params
    /\ vmargsCall.vmargsLine = << >> => vmargsCall.result = vmargsCall.params

C25_Witness ==
  /\ vmargsCall.done
  /\ vmargsCall.params = << <<"a">> >>
  /\ vmargsCall.vmargsLine = << "a", Space, Quote, Space, Quote >>
  /\ vmargsCall.result = << <<"a">>, << Space >> >>

(***************************************************************************)
(* Rule activation overrides                                               *)
(***************************************************************************)
DefaultLevel(key) ==
  IF \E node \in RuleNodes : node.key = key /\ node.activeByDefault THEN "on"
                                                                      ELSE "off"

\* C28: once the toggles made have been applied, a key toggled last from the
\* rule tree has an override exactly when the level requested last differs
\* from the rule's default activation, and the override is that level; a key
\* toggled last by bare key holds the requested level; a key never toggled
\* has no override, since toggling another key does not change it.
C28_OverrideFollowsLastToggle ==
  ruleUpdates = << >> =>
    \A key \in RuleKeys :
      rules[key] =
        IF lastToggle[key] = NoToggle THEN Undefined
        ELSE IF lastToggle[key].bare THEN lastToggle[key].level
        ELSE IF lastToggle[key].level # DefaultLevel(key) THEN lastToggle[key].level
        ELSE Undefined

(***************************************************************************)
(* Secondary-location tree: interleaved show and clear                     *)
(***************************************************************************)
\* C29: for any interleaving of show requests and clear commands, once every
\* show has completed the view's message corresponds to the issue the tree
\* displays: null when the tree is empty or the issue has no creation
\* timestamp, the header formatted from that issue otherwise.
C29_HeaderMatchesTree ==
  pendingShows = << >> /\ secondaryLocationsTree.created =>
    message =
      IF secondaryLocationsTree.issue = Undefined THEN NoMessage
      ELSE LET issue == IssueByKey(secondaryLocationsTree.issue)
           IN  IF issue.creationDate = Undefined
                 THEN NoMessage
                 ELSE << "Analyzed", DateTimeMed(issue.creationDate), "on",
                         issue.connectionId >>

(***************************************************************************)
(* Source-control bridge: events after dispose                             *)
(***************************************************************************)
\* C30: once GitScm.dispose has run, no subscription of the bridge is active:
\* no later git event (a repository opened, the collaborator changing state,
\* a repository changing) adds a subscription or sends a branch notification.
C30_SilentAfterDispose ==
  [][disposed => (listeners' = listeners /\ sentLog' = sentLog)]_vars

(***************************************************************************)
(* Source-control bridge: the bridge abandoned by initScm's catch          *)
(***************************************************************************)
\* C31: while the no-op bridge is selected, also when it was selected because
\* the constructor of the git-backed bridge threw part-way, no subscription of
\* an abandoned bridge is active and no branch notification has been sent.
C31_AbandonedBridgeSilent ==
  scm = "noop" =>
    /\ LiveListeners = << >>
    /\ ~stateListener
    /\ sentLog = << >>

(***************************************************************************)
(* Transport: connections accepted after the first                         *)
(***************************************************************************)
\* C32: the transport is the first connection the listening socket accepted:
\* as soon as a connection is accepted the session's reader and writer are
\* that first socket, and no later step, the accepting of further connections
\* included, changes them or makes another socket a transport.
C32_FirstConnectionBinds ==
  /\ [](accepted # << >> =>
          /\ transportPromise.state = "resolved"
          /\ transportPromise.reader = accepted[1]
          /\ transportPromise.writer = accepted[1]
          /\ TransportSockets = {accepted[1]})
  /\ [][transportPromise.state = "resolved" =>
          transportPromise' = transportPromise]_vars

C32_Witness ==
  /\ accepted = << "child", "other" >>
  /\ transportPromise.reader = "child"
  /\ transportPromise.writer = "child"
  /\ clientState = "ready"
====
